---------------------------- MODULE Spec2Model ----------------------------
(***************************************************************************)
(* A model of the PostScript lexical scanner of creachadair/postscript     *)
(* (scanner/scanner.go).  A byte is its integer value, a string is a       *)
(* sequence of bytes.  The Scanner's fields are the variables; one action  *)
(* per exported operation (Next, String, Int64, Float64) and one for the   *)
(* scan of cmd/psmin.                                                      *)
(***************************************************************************)
EXTENDS Integers, Sequences, FiniteSets, TLC

VARIABLES
    input,   \* the whole byte stream handed to New (never changes)
    rd,      \* s.input: how many bytes of the stream the bufio.Reader has delivered, net of UnreadByte
    text,    \* s.text: the bytes of the current token
    token,   \* s.token: the type of the current token
    err,     \* s.err
    pos,     \* s.pos
    end,     \* s.end
    ret,     \* what the last call of Next, or psmin's scan, returned ("none" before the first call)
    op,      \* the last operation: "New", "Next", "String", "Int64", "Float64", "psmin"
    str,     \* what the last call of String returned
    toks,    \* the <<type, text>> of every token Next has produced, as a caller's loop collects them
    val,     \* what the last call of Int64 or Float64 returned
    out,     \* the bytes cmd/psmin has written to its output
    failAt,  \* the stream: the offset (1-based) of the read that fails, 0 when no read fails
    sticky,  \* the stream: TRUE when every read after the failed one fails too
    failed,  \* the stream: TRUE once a read has failed
    calls,   \* how many calls of Next have returned nil or a syntax error (not io.EOF, not a read failure)
    name,    \* cmd/psmin: the argument main is given
    fatal    \* cmd/psmin: what main has passed to log.Fatalf (NoFatal when nothing)

vars == <<input, rd, text, token, err, pos, end, ret, op, str, toks, val, out,
          failAt, sticky, failed, calls, name, fatal>>

---------------------------------------------------------------------------
(* Bytes the source names as character literals.                           *)
NUL == 0
TAB == 9
LF == 10
FF == 12
CR == 13
SP == 32
Bang == 33
Hash == 35
Percent == 37
LParen == 40
RParen == 41
PlusSign == 43
Minus == 45
Dot == 46
Slash == 47
Ch0 == 48
Ch7 == 55
Ch9 == 57
LAngle == 60
RAngle == 62
UpA == 65
UpE == 69
UpF == 70
UpZ == 90
LBrack == 91
Backslash == 92
RBrack == 93
LowA == 97
LowB == 98
LowE == 101
LowF == 102
LowN == 110
LowR == 114
LowT == 116
LowU == 117
LowZ == 122
LBrace == 123
RBrace == 125
Tilde == 126
BS == 8

(* The token types.                                                        *)
Types == {"Invalid", "Comment", "LitString", "HexString", "A85String",
          "Decimal", "Radix", "Real", "Name", "QuotedName", "ImmediateName",
          "Left", "Right"}

(* Errors: nil, io.EOF and the syntax errors Next builds.  ch is the byte  *)
(* a message is formatted with (%c), 0 when it has none.                   *)
MkErr(m, c) == [msg |-> m, ch |-> c]
NilErr == MkErr("nil", 0)
EOFErr == MkErr("EOF", 0)
NoCall == MkErr("none", 0)
(* The error of a read of the stream that fails (any error but io.EOF).    *)
IOErr == MkErr("read failure", 0)

---------------------------------------------------------------------------
(* The classifier.                                                         *)
isSpaceNoNul(b) == b \in {TAB, LF, FF, CR, SP}

isSpace(b) == b \in {NUL, TAB, LF, FF, CR, SP}

isHex(b) == \/ (b >= Ch0 /\ b <= Ch9)
            \/ (b >= LowA /\ b <= LowF)
            \/ (b >= UpA /\ b <= UpF)

hexVal(b) == IF b >= LowA THEN b - LowA + 10
             ELSE IF b >= UpA THEN b - UpA + 10
             ELSE b - Ch0

isOctal(b) == b >= Ch0 /\ b <= Ch7

isA85ThroughZ(b) == b >= Bang /\ b <= LowZ

isA85(b) == b >= Bang /\ b <= LowU

isSpecialNoBracket(b) == b \in {LParen, RParen, LAngle, RAngle,
                                LBrace, RBrace, Slash, Percent}

isSpecial(b) == b \in {LParen, RParen, LAngle, RAngle, LBrack, RBrack,
                       LBrace, RBrace, Slash, Percent}

(* Regular expressions, by the set of positions a match can have reached:  *)
(* P is a set of positions of t (1..Len(t)+1), C a set of bytes.           *)
DigitCls == Ch0 .. Ch9
AlnumCls == (Ch0 .. Ch9) \cup (UpA .. UpZ) \cup (LowA .. LowZ)
ReOne(t, P, C) == {p + 1 : p \in {q \in P : q <= Len(t) /\ t[q] \in C}}
ReOpt(t, P, C) == P \cup ReOne(t, P, C)
RePlus(t, P, C) == {q \in 2 .. Len(t) + 1 :
                      \E p \in P : p < q /\ \A k \in p .. q - 1 : t[k] \in C}
ReStar(t, P, C) == P \cup RePlus(t, P, C)
ReMatch(t, P) == (Len(t) + 1) \in P
(* [eE][-+]?\d+ *)
ReExp(t, P) == RePlus(t, ReOpt(t, ReOne(t, P, {LowE, UpE}), {Minus, PlusSign}), DigitCls)

(* ^-?(\d+([eE][-+]?\d+)|(\d*\.\d+|\d+\.)([eE][-+]?\d+)?)$ *)
numReal(t) ==
    LET sign == ReOpt(t, {1}, {Minus})
        alt1 == ReExp(t, RePlus(t, sign, DigitCls))
        frac == RePlus(t, ReOne(t, ReStar(t, sign, DigitCls), {Dot}), DigitCls)
                  \cup ReOne(t, RePlus(t, sign, DigitCls), {Dot})
        alt2 == frac \cup ReExp(t, frac)
    IN ReMatch(t, alt1 \cup alt2)

(* ^[-+]?\d+$ *)
numInteger(t) == ReMatch(t, RePlus(t, ReOpt(t, {1}, {Minus, PlusSign}), DigitCls))

(* ^\d+#[0-9A-Za-z]+$ *)
numRadix(t) == ReMatch(t, RePlus(t, ReOne(t, RePlus(t, {1}, DigitCls), {Hash}), AlnumCls))

HasPrefix(t, p) == Len(t) >= Len(p) /\ SubSeq(t, 1, Len(p)) = p

---------------------------------------------------------------------------
(* The scanner as a record, and the operations on it.  An operation that   *)
(* returns an error gives [s |-> the scanner after it, ret |-> the error]. *)
New(in) == [input |-> in, rd |-> 0, text |-> <<>>, token |-> "Invalid",
            err |-> NilErr, pos |-> 0, end |-> 0,
            failAt |-> 0, sticky |-> FALSE, failed |-> FALSE]

Return(s, e) == [s |-> s, ret |-> e]

seterr(s, e) == Return([s EXCEPT !.err = e], e)

(* The read of the byte after the rd delivered ones fails when it is the   *)
(* read the stream fails at, once, or again and again on a sticky stream.  *)
readFails(s) == s.failAt # 0 /\ s.rd + 1 = s.failAt /\ (s.sticky \/ ~s.failed)

(* s.byte(): the bufio.Reader delivers the next byte of the stream, the    *)
(* error of a failed read, or io.EOF when the stream is used up.           *)
byteEOFCounts(s) ==
    IF readFails(s)
    THEN [s |-> [s EXCEPT !.failed = TRUE], b |-> 0, err |-> IOErr]
    ELSE IF s.rd < Len(s.input)
    THEN [s |-> [s EXCEPT !.rd = @ + 1, !.end = @ + 1],
          b |-> s.input[s.rd + 1], err |-> NilErr]
    ELSE [s |-> [s EXCEPT !.end = @ + 1], b |-> 0, err |-> EOFErr]

byte(s) ==
    IF readFails(s)
    THEN [s |-> [s EXCEPT !.failed = TRUE], b |-> 0, err |-> IOErr]
    ELSE IF s.rd < Len(s.input)
    THEN [s |-> [s EXCEPT !.rd = @ + 1, !.end = @ + 1],
          b |-> s.input[s.rd + 1], err |-> NilErr]
    ELSE [s |-> s, b |-> 0, err |-> EOFErr]

ungetTwice(s) == [s EXCEPT !.rd = @ - 2, !.end = @ - 2]

ungetKeepsEnd(s) == [s EXCEPT !.rd = @ - 1]

unget(s) == [s EXCEPT !.rd = @ - 1, !.end = @ - 1]

WriteByte(s, b) == [s EXCEPT !.text = Append(@, b)]

RECURSIVE scanCommentCR(_)
scanCommentCR(s) ==
    LET r == byte(s) IN
    IF r.err = EOFErr
    THEN Return([r.s EXCEPT !.end = @ + 1, !.token = "Comment"], NilErr)
    ELSE IF r.err # NilErr THEN seterr(r.s, r.err)
    ELSE LET s1 == WriteByte(r.s, r.b) IN
         IF r.b = LF \/ r.b = FF \/ r.b = CR
         THEN Return([s1 EXCEPT !.token = "Comment"], NilErr)
         ELSE scanCommentCR(s1)

RECURSIVE scanComment(_)
scanComment(s) ==
    LET r == byte(s) IN
    IF r.err = EOFErr
    THEN Return([r.s EXCEPT !.end = @ + 1, !.token = "Comment"], NilErr)
    ELSE IF r.err # NilErr THEN seterr(r.s, r.err)
    ELSE LET s1 == WriteByte(r.s, r.b) IN
         IF r.b = LF \/ r.b = FF
         THEN Return([s1 EXCEPT !.token = "Comment"], NilErr)
         ELSE scanComment(s1)

(* The escape flag and the depth of scanString after the byte b.           *)
strEscNoToggle(b, esc) == b = Backslash

strEsc(b, esc) == IF b = Backslash THEN ~esc ELSE FALSE

strDepth(b, depth, esc) ==
    IF b = Backslash \/ esc THEN depth
    ELSE IF b = LParen THEN depth + 1
    ELSE IF b = RParen THEN depth - 1
    ELSE depth

RECURSIVE scanStringLoop(_, _, _)
scanStringLoop(s, depth, esc) ==
    LET r == byte(s) IN
    IF r.err = EOFErr THEN seterr(r.s, MkErr("unterminated string", 0))
    ELSE IF r.err # NilErr THEN seterr(r.s, r.err)
    ELSE LET esc1 == strEsc(r.b, esc)
             depth1 == strDepth(r.b, depth, esc)
             s1 == WriteByte(r.s, r.b)
         IN IF r.b = RParen /\ depth1 = 0
            THEN Return([s1 EXCEPT !.token = "LitString"], NilErr)
            ELSE scanStringLoop(s1, depth1, esc1)

scanString(s) == scanStringLoop(s, 1, FALSE)

RECURSIVE scanHexAnyByte(_)
scanHexAnyByte(s) ==
    LET r == byte(s) IN
    IF r.err = EOFErr THEN seterr(r.s, MkErr("unterminated hex string", 0))
    ELSE IF r.err # NilErr THEN seterr(r.s, r.err)
    ELSE LET s1 == WriteByte(r.s, r.b) IN
         IF r.b = RAngle THEN Return([s1 EXCEPT !.token = "HexString"], NilErr)
         ELSE scanHexAnyByte(s1)

RECURSIVE scanHex(_)
scanHex(s) ==
    LET r == byte(s) IN
    IF r.err = EOFErr THEN seterr(r.s, MkErr("unterminated hex string", 0))
    ELSE IF r.err # NilErr THEN seterr(r.s, r.err)
    ELSE LET s1 == WriteByte(r.s, r.b) IN
         IF r.b = RAngle THEN Return([s1 EXCEPT !.token = "HexString"], NilErr)
         ELSE IF ~isHex(r.b) /\ ~isSpace(r.b) THEN seterr(s1, MkErr("invalid hex", r.b))
         ELSE scanHex(s1)

RECURSIVE scanA85(_)
scanA85(s) ==
    LET r == byte(s) IN
    IF r.err = EOFErr THEN seterr(r.s, MkErr("unterminated ascii85 string", 0))
    ELSE IF r.err # NilErr THEN seterr(r.s, r.err)
    ELSE LET s1 == WriteByte(r.s, r.b) IN
         IF r.b = Tilde
         THEN LET c == byte(s1) IN
              IF c.err # NilErr \/ c.b # RAngle
              THEN seterr(c.s, MkErr("invalid closing ascii85 quote", 0))
              ELSE Return([WriteByte(c.s, RAngle) EXCEPT !.token = "A85String"], NilErr)
         ELSE IF ~isA85(r.b) /\ ~isSpace(r.b) THEN seterr(s1, MkErr("invalid ascii85", r.b))
         ELSE scanA85(s1)

(* The classification that ends scanNamelike.                              *)
classifySlashFirst(t) ==
    IF HasPrefix(t, <<Slash>>) THEN "QuotedName"
    ELSE IF HasPrefix(t, <<Slash, Slash>>) THEN "ImmediateName"
    ELSE IF numReal(t) THEN "Real"
    ELSE IF numInteger(t) THEN "Decimal"
    ELSE IF numRadix(t) THEN "Radix"
    ELSE "Name"

classify(t) ==
    IF HasPrefix(t, <<Slash, Slash>>) THEN "ImmediateName"
    ELSE IF HasPrefix(t, <<Slash>>) THEN "QuotedName"
    ELSE IF numReal(t) THEN "Real"
    ELSE IF numInteger(t) THEN "Decimal"
    ELSE IF numRadix(t) THEN "Radix"
    ELSE "Name"

endNamelike(s) == Return([s EXCEPT !.token = classify(s.text)], NilErr)

RECURSIVE scanNamelike(_, _)
scanNamelike(s, first) ==
    LET r == byte(s) IN
    IF r.err = EOFErr THEN endNamelike([r.s EXCEPT !.end = @ + 1])
    ELSE IF r.err # NilErr THEN seterr(r.s, r.err)
    ELSE IF first # 0 /\ r.b = first
    THEN LET s1 == WriteByte(r.s, r.b) IN
         IF r.b # Slash THEN endNamelike(s1) ELSE scanNamelike(s1, 0)
    ELSE IF isSpace(r.b) \/ isSpecial(r.b) THEN endNamelike(unget(r.s))
    ELSE scanNamelike(WriteByte(r.s, r.b), 0)

(* The lookahead of Next after a '<'.                                      *)
scanAngleAnyErr(s, b) ==
    LET c == byte(s) IN
    IF c.err # NilErr THEN seterr(c.s, c.err)
    ELSE IF c.b = Tilde THEN scanA85(WriteByte(c.s, c.b))
    ELSE IF c.b # LAngle THEN scanHex(unget(c.s))
    ELSE scanNamelike(unget(c.s), b)

scanAngle(s, b) ==
    LET c == byte(s) IN
    IF c.err = EOFErr THEN seterr(c.s, MkErr("unterminated hex string", 0))
    ELSE IF c.err # NilErr THEN seterr(c.s, c.err)
    ELSE IF c.b = Tilde THEN scanA85(WriteByte(c.s, c.b))
    ELSE IF c.b # LAngle THEN scanHex(unget(c.s))
    ELSE scanNamelike(unget(c.s), b)

ResetKeepsPos(s) == [s EXCEPT !.text = <<>>, !.token = "Invalid", !.err = NilErr]

ResetKeepsToken(s) == [s EXCEPT !.text = <<>>, !.pos = s.end, !.err = NilErr]

ResetKeepsErr(s) == [s EXCEPT !.text = <<>>, !.pos = s.end, !.token = "Invalid"]

ResetKeepsText(s) == [s EXCEPT !.pos = s.end, !.token = "Invalid", !.err = NilErr]

Reset(s) == [s EXCEPT !.text = <<>>, !.pos = s.end, !.token = "Invalid", !.err = NilErr]

RECURSIVE NextLoop(_)
NextLoop(s) ==
    LET r == byte(s) IN
    IF r.err # NilErr THEN seterr(r.s, r.err)
    ELSE IF isSpace(r.b) THEN NextLoop([r.s EXCEPT !.pos = r.s.end])
    ELSE LET s1 == WriteByte(r.s, r.b) IN
         IF r.b = Percent THEN scanComment(s1)
         ELSE IF r.b = LParen THEN scanString(s1)
         ELSE IF r.b \in {LBrack, RBrack} THEN Return([s1 EXCEPT !.token = "Name"], NilErr)
         ELSE IF r.b = LBrace THEN Return([s1 EXCEPT !.token = "Left"], NilErr)
         ELSE IF r.b = RBrace THEN Return([s1 EXCEPT !.token = "Right"], NilErr)
         ELSE IF r.b = LAngle THEN scanAngle(s1, r.b)
         ELSE scanNamelike(s1, r.b)

ScannerNext(s) == NextLoop(Reset(s))

---------------------------------------------------------------------------
(* The literal decoders and String().                                      *)
quoteMapNoTab == (LowN :> LF) @@ (LowR :> CR) @@ (LowT :> LowT) @@ (LowB :> BS) @@
                 (LowF :> FF) @@ (Backslash :> Backslash) @@ (LParen :> LParen) @@
                 (RParen :> RParen)

quoteMap == (LowN :> LF) @@ (LowR :> CR) @@ (LowT :> TAB) @@ (LowB :> BS) @@
            (LowF :> FF) @@ (Backslash :> Backslash) @@ (LParen :> LParen) @@
            (RParen :> RParen)

(* The byte of an octal escape whose digits are a, b, c (byte arithmetic). *)
octalByte(a, b, c) == (64 * (a - Ch0) + 8 * (b - Ch0) + (c - Ch0)) % 256

(* The loop of decodeLiteral: i is the (1-based) index of the byte looked  *)
(* at, buf what has been written.                                          *)
RECURSIVE decodeLiteralLoop(_, _, _, _)
decodeLiteralLoop(s, i, esc, buf) ==
    IF i > Len(s) THEN buf
    ELSE LET ch == s[i] IN
         IF esc
         THEN IF ch \in DOMAIN quoteMap
              THEN decodeLiteralLoop(s, i + 1, FALSE, Append(buf, quoteMap[ch]))
              ELSE IF i + 2 <= Len(s) /\ isOctal(s[i]) /\ isOctal(s[i + 1]) /\ isOctal(s[i + 2])
              THEN decodeLiteralLoop(s, i + 1, FALSE,
                                     Append(buf, octalByte(s[i], s[i + 1], s[i + 2])))
              ELSE IF ch = CR
              THEN decodeLiteralLoop(s, IF i + 1 <= Len(s) /\ s[i + 1] = LF THEN i + 2 ELSE i + 1,
                                     FALSE, buf)
              ELSE IF ch = LF THEN decodeLiteralLoop(s, i + 1, FALSE, buf)
              ELSE decodeLiteralLoop(s, i + 1, FALSE, Append(buf, ch))
         ELSE IF ch = Backslash THEN decodeLiteralLoop(s, i + 1, TRUE, buf)
         ELSE decodeLiteralLoop(s, i + 1, FALSE, Append(buf, ch))

decodeLiteral(s) == decodeLiteralLoop(s, 1, FALSE, <<>>)

RECURSIVE decodeHexLoopNoPad(_, _, _, _, _)
decodeHexLoopNoPad(s, i, cur, odd, buf) ==
    IF i > Len(s) THEN buf
    ELSE IF isHex(s[i])
    THEN LET c == (16 * cur + hexVal(s[i])) % 256 IN
         IF odd THEN decodeHexLoopNoPad(s, i + 1, 0, FALSE, Append(buf, c))
         ELSE decodeHexLoopNoPad(s, i + 1, c, TRUE, buf)
    ELSE decodeHexLoopNoPad(s, i + 1, cur, odd, buf)

RECURSIVE decodeHexLoop(_, _, _, _, _)
decodeHexLoop(s, i, cur, odd, buf) ==
    IF i > Len(s) THEN (IF odd THEN Append(buf, (16 * cur) % 256) ELSE buf)
    ELSE IF isHex(s[i])
    THEN LET c == (16 * cur + hexVal(s[i])) % 256 IN
         IF odd THEN decodeHexLoop(s, i + 1, 0, FALSE, Append(buf, c))
         ELSE decodeHexLoop(s, i + 1, c, TRUE, buf)
    ELSE decodeHexLoop(s, i + 1, cur, odd, buf)

decodeHex(s) == decodeHexLoop(s, 1, 0, FALSE, <<>>)

(* encoding/ascii85.Decode(dst, src, flush = true) with len(dst) = len(s): *)
(* v is the uint32 of the group, held as its four bytes <<v>>24, v>>16,    *)
(* v>>8, v>> (each and 0xff), nb the digits of the group so far, buf       *)
(* dst[:ndst].  A corrupt input gives ndst = 0.                            *)
U32Zero == <<0, 0, 0, 0>>
(* (v * m + a) as a uint32, for m, a < 256 *)
U32MulAdd(v, m, a) ==
    LET t0 == v[4] * m + a
        t1 == v[3] * m + t0 \div 256
        t2 == v[2] * m + t1 \div 256
        t3 == v[1] * m + t2 \div 256
    IN <<t3 % 256, t2 % 256, t1 % 256, t0 % 256>>
RECURSIVE a85Pad(_, _)
a85Pad(v, nb) == IF nb >= 5 THEN v ELSE a85Pad(U32MulAdd(v, 85, 84), nb + 1)
a85Flush(v, n, buf) == buf \o SubSeq(v, 1, n)
RECURSIVE decodeA85Loop(_, _, _, _, _)
decodeA85Loop(s, i, v, nb, buf) ==
    IF i > Len(s)
    THEN (IF nb = 0 THEN buf
          ELSE IF nb = 1 THEN <<>>
          ELSE a85Flush(a85Pad(v, nb), nb - 1, buf))
    ELSE IF Len(s) - Len(buf) < 4 THEN buf
    ELSE LET b == s[i] IN
         IF b <= SP THEN decodeA85Loop(s, i + 1, v, nb, buf)
         ELSE IF (b = LowZ /\ nb = 0) \/ (b >= Bang /\ b <= LowU)
         THEN LET v1 == IF b = LowZ /\ nb = 0 THEN U32Zero ELSE U32MulAdd(v, 85, b - Bang)
                  nb1 == IF b = LowZ /\ nb = 0 THEN 5 ELSE nb + 1
              IN IF nb1 = 5
                 THEN decodeA85Loop(s, i + 1, U32Zero, 0, buf \o v1)
                 ELSE decodeA85Loop(s, i + 1, v1, nb1, buf)
         ELSE <<>>

decodeA85(s) == decodeA85Loop(s, 1, U32Zero, 0, <<>>)

(* strings.TrimPrefix, strings.TrimLeft(t, "%") and strings.TrimSpace.     *)
TrimPrefix(t, p) == IF HasPrefix(t, p) THEN SubSeq(t, Len(p) + 1, Len(t)) ELSE t
RECURSIVE TrimLeftSet(_, _)
TrimLeftSet(t, C) == IF t # <<>> /\ t[1] \in C THEN TrimLeftSet(Tail(t), C) ELSE t
(* The white space of unicode.IsSpace in UTF-8: '\t', '\n', '\v', '\f',     *)
(* '\r', ' ', U+0085, U+00A0, U+1680, U+2000 to U+200A, U+2028, U+2029,     *)
(* U+202F, U+205F and U+3000.  TrimSpace drops the runes of white space    *)
(* at both ends; a byte that is not the start of one of them stops it.     *)
SpaceRunes ==
    {<<c>> : c \in {TAB, LF, 11, FF, CR, SP}}
    \cup {<<194, 133>>, <<194, 160>>, <<225, 154, 128>>}
    \cup {<<226, 128, c>> : c \in (128 .. 138) \cup {168, 169, 175}}
    \cup {<<226, 129, 159>>, <<227, 128, 128>>}
RECURSIVE TrimSpace(_)
TrimSpace(t) ==
    IF \E p \in SpaceRunes : HasPrefix(t, p)
    THEN TrimSpace(SubSeq(t, Len(CHOOSE p \in SpaceRunes : HasPrefix(t, p)) + 1, Len(t)))
    ELSE IF \E p \in SpaceRunes : Len(p) <= Len(t) /\ SubSeq(t, Len(t) - Len(p) + 1, Len(t)) = p
    THEN TrimSpace(SubSeq(t, 1, Len(t) - Len(CHOOSE p \in SpaceRunes :
                      Len(p) <= Len(t) /\ SubSeq(t, Len(t) - Len(p) + 1, Len(t)) = p)))
    ELSE t

ScannerString(s) ==
    IF s.token \in {"Decimal", "Left", "Name", "Radix", "Real", "Right"} THEN s.text
    ELSE IF s.token = "QuotedName" THEN TrimPrefix(s.text, <<Slash>>)
    ELSE IF s.token = "ImmediateName" THEN TrimPrefix(s.text, <<Slash, Slash>>)
    ELSE IF s.token = "Comment" THEN TrimSpace(TrimLeftSet(s.text, {Percent}))
    ELSE IF s.token = "LitString" THEN decodeLiteral(SubSeq(s.text, 2, Len(s.text) - 1))
    ELSE IF s.token = "HexString" THEN decodeHex(SubSeq(s.text, 2, Len(s.text) - 1))
    ELSE IF s.token = "A85String" THEN decodeA85(SubSeq(s.text, 3, Len(s.text) - 2))
    ELSE <<>>

---------------------------------------------------------------------------
(* Int64() and Float64().  A 64-bit magnitude is four 16-bit limbs, the    *)
(* most significant first; an int64 is a sign and a magnitude.             *)
Limb == 256 * 256
U64Zero == <<0, 0, 0, 0>>
I64(neg, mag) == [neg |-> neg /\ mag # U64Zero, mag |-> mag]
I64Zero == I64(FALSE, U64Zero)
MaxInt64 == I64(FALSE, <<32767, 65535, 65535, 65535>>)
MinInt64 == I64(TRUE, <<32768, 0, 0, 0>>)
MaxUint64 == <<65535, 65535, 65535, 65535>>

(* v * m + a in 64 bits, and whether it overflowed 64 bits. *)
U64MulAdd(v, m, a) ==
    LET x4 == v[4] * m + a
        x3 == v[3] * m + x4 \div Limb
        x2 == v[2] * m + x3 \div Limb
        x1 == v[1] * m + x2 \div Limb
    IN [v |-> <<x1 % Limb, x2 % Limb, x3 % Limb, x4 % Limb>>, over |-> x1 \div Limb # 0]

(* The errors of strconv, by the Err field of the NumError. *)
ErrSyntax == MkErr("strconv: invalid syntax", 0)
ErrRange == MkErr("strconv: value out of range", 0)
ErrBase == MkErr("strconv: invalid base", 0)
ErrInvalidFormat == MkErr("invalid format", 0)

lower(c) == IF c >= UpA /\ c <= UpZ THEN c + (LowA - UpA) ELSE c
LowO == 111
LowX == 120

(* The value of the byte c as a digit, 99 when it is none. *)
digitVal(c) ==
    IF c >= Ch0 /\ c <= Ch9 THEN c - Ch0
    ELSE IF lower(c) >= LowA /\ lower(c) <= LowZ THEN lower(c) - LowA + 10
    ELSE 99

(* The digit loop of strconv.ParseUint, n the value so far. *)
RECURSIVE parseDigits(_, _, _, _)
parseDigits(t, i, base, n) ==
    IF i > Len(t) THEN [v |-> n, err |-> NilErr]
    ELSE LET d == digitVal(t[i])
             r == U64MulAdd(n, base, d)
         IN IF d >= base THEN [v |-> U64Zero, err |-> ErrSyntax]
            ELSE IF r.over THEN [v |-> MaxUint64, err |-> ErrRange]
            ELSE parseDigits(t, i + 1, base, r.v)

(* strconv.ParseUint(t, base, 64); base 0 takes the base from a prefix of  *)
(* t: 0b, 0o, 0x, a leading 0 for octal, decimal otherwise.                *)
ParseUint(t, base) ==
    IF t = <<>> THEN [v |-> U64Zero, err |-> ErrSyntax]
    ELSE IF base >= 2 /\ base <= 36 THEN parseDigits(t, 1, base, U64Zero)
    ELSE IF base # 0 THEN [v |-> U64Zero, err |-> ErrBase]
    ELSE IF t[1] # Ch0 THEN parseDigits(t, 1, 10, U64Zero)
    ELSE IF Len(t) >= 3 /\ lower(t[2]) = LowB THEN parseDigits(t, 3, 2, U64Zero)
    ELSE IF Len(t) >= 3 /\ lower(t[2]) = LowO THEN parseDigits(t, 3, 8, U64Zero)
    ELSE IF Len(t) >= 3 /\ lower(t[2]) = LowX THEN parseDigits(t, 3, 16, U64Zero)
    ELSE parseDigits(t, 2, 8, U64Zero)

(* strconv.ParseInt(t, base, 64). *)
ParseInt(t, base) ==
    IF t = <<>> THEN [v |-> I64Zero, err |-> ErrSyntax]
    ELSE LET neg == t[1] = Minus
             u == ParseUint(IF t[1] \in {Minus, PlusSign} THEN SubSeq(t, 2, Len(t)) ELSE t, base)
         IN IF u.err # NilErr /\ u.err # ErrRange THEN [v |-> I64Zero, err |-> u.err]
            ELSE IF ~neg /\ u.v[1] >= 32768 THEN [v |-> MaxInt64, err |-> ErrRange]
            ELSE IF neg /\ u.v[1] >= 32768 /\ u.v # MinInt64.mag
                 THEN [v |-> MinInt64, err |-> ErrRange]
            ELSE [v |-> I64(neg, u.v), err |-> NilErr]

(* An int64 as an int of the model when it is under 65536, -1 when it is   *)
(* larger or negative: what strconv.ParseInt compares a base with.         *)
smallInt(z) ==
    IF z.neg \/ z.mag[1] # 0 \/ z.mag[2] # 0 \/ z.mag[3] # 0 THEN -1 ELSE z.mag[4]

(* strings.SplitN(t, "#", 2) of a text with a '#'. *)
RECURSIVE IndexByte(_, _, _)
IndexByte(t, c, i) == IF i > Len(t) THEN 0 ELSE IF t[i] = c THEN i ELSE IndexByte(t, c, i + 1)
SplitN2(t, c) ==
    LET k == IndexByte(t, c, 1)
    IN IF k = 0 THEN <<t>> ELSE <<SubSeq(t, 1, k - 1), SubSeq(t, k + 1, Len(t))>>

(* A float64 is kept as the decimal expansion of its exact value: a sign,  *)
(* the significant digits (no zero at either end, none for zero) and the   *)
(* power of ten of the last digit; inf is set for an infinity.             *)
dropLeadingZeros(d) ==
    IF \A i \in 1 .. Len(d) : d[i] = 0 THEN <<>>
    ELSE SubSeq(d, CHOOSE i \in 1 .. Len(d) : d[i] # 0 /\ \A k \in 1 .. i - 1 : d[k] = 0, Len(d))
F64(neg, d, scale) ==
    LET norm(n) ==
            IF n = <<>> THEN [neg |-> neg, digits |-> <<>>, scale |-> 0, inf |-> FALSE]
            ELSE LET z == CHOOSE k \in 0 .. Len(n) - 1 :
                              n[Len(n) - k] # 0 /\ \A j \in 1 .. k : n[Len(n) - j + 1] = 0
                 IN [neg |-> neg, digits |-> SubSeq(n, 1, Len(n) - z), scale |-> scale + z,
                     inf |-> FALSE]
    IN norm(dropLeadingZeros(d))
F64Zero == F64(FALSE, <<>>, 0)
F64Inf(neg) == [neg |-> neg, digits |-> <<>>, scale |-> 0, inf |-> TRUE]

(* The exponent digits of a float text from index i on; strconv stops      *)
(* accumulating at 10000.                                                  *)
RECURSIVE expDigits(_, _, _)
expDigits(t, i, e) ==
    IF i > Len(t) THEN e
    ELSE expDigits(t, i + 1, IF e < 10000 THEN e * 10 + (t[i] - Ch0) ELSE e)

(* The decimal digits of a 64-bit magnitude, from its value in base 10^4:  *)
(* 2^16 = 6 5536, 2^32 = 42 9496 7296 and 2^48 = 281 4749 7671 0656.       *)
U64Digits(v) ==
    LET t0 == v[4] + v[3] * 5536 + v[2] * 7296 + v[1] * 656
        t1 == v[3] * 6 + v[2] * 9496 + v[1] * 7671 + t0 \div 10000
        t2 == v[2] * 42 + v[1] * 4749 + t1 \div 10000
        t3 == v[1] * 281 + t2 \div 10000
    IN dropLeadingZeros([i \in 1 .. 20 |->
           IF i <= 8 THEN (t3 \div 10^(8 - i)) % 10
           ELSE IF i <= 12 THEN (t2 \div 10^(12 - i)) % 10
           ELSE IF i <= 16 THEN (t1 \div 10^(16 - i)) % 10
           ELSE (t0 \div 10^(20 - i)) % 10])

(* Natural numbers of any size are the sequences of their decimal digits,  *)
(* the most significant first, none for zero.                              *)
(* firstDiff is the first index after i where a and b, of one length,      *)
(* differ, or 0; BigLess is a < b.                                         *)
firstDiff(a, b, i) ==
    IF \A j \in i + 1 .. Len(a) : a[j] = b[j] THEN 0
    ELSE CHOOSE j \in i + 1 .. Len(a) : a[j] # b[j] /\ \A k \in i + 1 .. j - 1 : a[k] = b[k]
BigLess(a, b) ==
    IF Len(a) # Len(b) THEN Len(a) < Len(b)
    ELSE LET j == firstDiff(a, b, 0) IN j # 0 /\ a[j] < b[j]
(* BigSub is a - b for b <= a: a digit borrows when the digits to its      *)
(* right are less in a than in b.                                          *)
BigSub(a, b) ==
    LET sub(p) == [i \in 1 .. Len(a) |->
                     LET j == firstDiff(a, p, i)
                     IN (a[i] - p[i] - (IF j # 0 /\ a[j] < p[j] THEN 1 ELSE 0) + 10) % 10]
    IN dropLeadingZeros(sub([i \in 1 .. Len(a) |->
                                IF i <= Len(a) - Len(b) THEN 0 ELSE b[i - (Len(a) - Len(b))]]))
(* BigMul is d * c for c = 2 or 5: a digit doubled carries when it is 5 or *)
(* more, whatever is carried into it, and d * 5 is d * 10 halved, where a  *)
(* digit takes ten from an odd digit on its left.  BigPow is d * c^n.      *)
BigMul(d, c) ==
    IF d = <<>> THEN <<>>
    ELSE IF c = 2
    THEN (IF d[1] >= 5 THEN <<1>> ELSE <<>>)
         \o [i \in 1 .. Len(d) |->
                (2 * d[i] + (IF i < Len(d) /\ d[i + 1] >= 5 THEN 1 ELSE 0)) % 10]
    ELSE (IF d[1] >= 2 THEN <<d[1] \div 2>> ELSE <<>>)
         \o [i \in 1 .. Len(d) |->
                (10 * (d[i] % 2) + (IF i < Len(d) THEN d[i + 1] ELSE 0)) \div 2]
RECURSIVE BigPow(_, _, _)
BigPow(d, c, n) ==
    IF n = 0 \/ d = <<>> THEN d
    ELSE IF n = 1 THEN BigMul(d, c)
    ELSE BigPow(BigPow(d, c, n \div 2), c, n - n \div 2)

(* The float64 nearest to n / lo * 2^(e + 52), for n > 0: the rounding of  *)
(* strconv.ParseFloat and of the conversion float64(z), to 53 bits, ties   *)
(* to even, with the subnormals below 2^-1022 and infinity from 2^1024 -   *)
(* 2^970 on.                                                               *)
(* scaleBits brings n / lo into [1, 2), or leaves it below 1 at the        *)
(* exponent of the subnormals, by steps of 2^step, step halved from call   *)
(* to call (a product is computed only when the numbers of digits leave    *)
(* the comparison open: 2^10 > 10^3).                                      *)
RECURSIVE scaleBits(_, _, _, _)
scaleBits(n, lo, e, step) ==
    IF step = 0 THEN [n |-> n, lo |-> lo, e |-> e]
    ELSE IF \/ e + step <= 0 - 1074
            \/ /\ 10 * (Len(n) - Len(lo) + 1) > 3 * step
               /\ ~BigLess(n, BigPow(lo, 2, step))
    THEN scaleBits(n, BigPow(lo, 2, step), e + step, step \div 2)
    ELSE IF /\ e - step >= 0 - 1074
            /\ 10 * (Len(lo) - Len(n) + 1) > 3 * (step - 1)
            /\ BigLess(BigPow(n, 2, step - 1), lo)
    THEN scaleBits(BigPow(n, 2, step), lo, e - step, step \div 2)
    ELSE scaleBits(n, lo, e, step \div 2)
(* divBits is the k bits (at most 27) of the quotient of r by lo, for      *)
(* r < 2 * lo, the remainder doubled from one bit to the next: the         *)
(* quotient as a number and the last remainder.                            *)
RECURSIVE divBits(_, _, _)
divBits(r, lo, k) ==
    IF k = 1
    THEN IF BigLess(r, lo) THEN [m |-> 0, r |-> r] ELSE [m |-> 1, r |-> BigSub(r, lo)]
    ELSE LET join(a, b) == [m |-> a.m * 2^(k - k \div 2) + b.m, r |-> b.r]
             second(a) == join(a, divBits(BigMul(a.r, 2), lo, k - k \div 2))
         IN second(divBits(r, lo, k \div 2))
(* roundEven takes the 53 bits of the quotient of a scaled s, 27 and 26,   *)
(* as a 64-bit magnitude m, rounds it on the remainder, and gives the      *)
(* decimal expansion of m * 2^e.                                           *)
roundEven(neg, s) ==
    LET rounded(m) ==
            IF s.e = 971 /\ m = <<32, 0, 0, 0>> THEN [v |-> F64Inf(neg), err |-> ErrRange]
            ELSE IF s.e >= 0
            THEN [v |-> F64(neg, BigPow(U64Digits(m), 2, s.e), 0), err |-> NilErr]
            ELSE [v |-> F64(neg, BigPow(U64Digits(m), 5, 0 - s.e), s.e), err |-> NilErr]
        round(m, r2) ==
            IF BigLess(s.lo, r2) \/ (r2 = s.lo /\ m[4] % 2 = 1)
            THEN rounded(U64MulAdd(m, 1, 1).v)
            ELSE rounded(m)
        low(q1, q2) ==
            round(U64MulAdd(U64MulAdd(<<0, 0, q1.m \div Limb, q1.m % Limb>>, 2^13, 0).v,
                            2^13, q2.m).v,
                  BigMul(q2.r, 2))
        high(q1) == low(q1, divBits(BigMul(q1.r, 2), s.lo, 26))
    IN IF s.e > 971 THEN [v |-> F64Inf(neg), err |-> ErrRange]
       ELSE high(divBits(s.n, s.lo, 27))

(* strconv.ParseFloat(t, 64) of a text of the shape of numReal: the        *)
(* float64 nearest to the decimal number of the text, d * 10^scale =       *)
(* d * 5^scale * 2^scale.  A number of more than 310 digits before the     *)
(* point is infinite and one under 10^-326 is zero whatever its digits.    *)
ParseFloat(t) ==
    LET neg == t[1] = Minus
        b == IF neg THEN Tail(t) ELSE t
        ke == IF IndexByte(b, LowE, 1) # 0 THEN IndexByte(b, LowE, 1) ELSE IndexByte(b, UpE, 1)
        m == IF ke = 0 THEN b ELSE SubSeq(b, 1, ke - 1)
        x == IF ke = 0 THEN <<>> ELSE SubSeq(b, ke + 1, Len(b))
        xneg == x # <<>> /\ x[1] = Minus
        xd == IF x # <<>> /\ x[1] \in {Minus, PlusSign} THEN Tail(x) ELSE x
        e == IF xneg THEN 0 - expDigits(xd, 1, 0) ELSE expDigits(xd, 1, 0)
        kd == IndexByte(m, Dot, 1)
        ip == IF kd = 0 THEN m ELSE SubSeq(m, 1, kd - 1)
        fp == IF kd = 0 THEN <<>> ELSE SubSeq(m, kd + 1, Len(m))
        f == F64(neg, [i \in 1 .. Len(ip) + Len(fp) |->
                          (IF i <= Len(ip) THEN ip[i] ELSE fp[i - Len(ip)]) - Ch0],
                 e - Len(fp))
        k == Len(f.digits) + f.scale
    IN IF f.digits = <<>> THEN [v |-> f, err |-> NilErr]
       ELSE IF k > 310 THEN [v |-> F64Inf(neg), err |-> ErrRange]
       ELSE IF k < 0 - 326 THEN [v |-> F64(neg, <<>>, 0), err |-> NilErr]
       ELSE IF f.scale >= 0
       THEN roundEven(neg, scaleBits(BigPow(f.digits, 5, f.scale), BigPow(<<1>>, 2, 52),
                                     f.scale, 1024))
       ELSE roundEven(neg, scaleBits(f.digits, BigPow(BigPow(<<1>>, 5, 0 - f.scale), 2, 52),
                                     f.scale, 1024))

(* The integer part of a finite float64 as a 64-bit magnitude, the digits  *)
(* of the integer part taken one by one; over is set when it needs more    *)
(* than 64 bits.                                                           *)
RECURSIVE intPart(_, _, _, _)
intPart(f, i, n, acc) ==
    IF i > n THEN [v |-> acc, over |-> FALSE]
    ELSE LET r == U64MulAdd(acc, 10, IF i <= Len(f.digits) THEN f.digits[i] ELSE 0)
         IN IF r.over THEN r ELSE intPart(f, i + 1, n, r.v)

(* int64(f): the truncation of f when it is an int64; the conversion of a  *)
(* float64 outside the int64 range is implementation-dependent in Go: the  *)
(* smallest int64 (amd64), or the nearest int64 (arm64).                   *)
truncInt64(f) ==
    LET n == Len(f.digits) + f.scale
        r == IF n <= 20 THEN intPart(f, 1, n, U64Zero) ELSE [v |-> U64Zero, over |-> TRUE]
        fits == /\ ~f.inf /\ ~r.over
                /\ (r.v[1] < 32768 \/ (f.neg /\ r.v = MinInt64.mag))
    IN IF fits THEN {I64(f.neg, r.v)}
       ELSE IF f.neg THEN {MinInt64}
       ELSE {MinInt64, MaxInt64}

(* float64(z) of an int64: the float64 nearest to z. *)
floatOfInt64(z) ==
    IF z.mag = U64Zero THEN F64Zero
    ELSE roundEven(z.neg, scaleBits(U64Digits(z.mag), BigPow(<<1>>, 2, 52), 0, 1024)).v

(* The results of Scanner.Int64: the outcomes a build can give.            *)
ScannerInt64(s) ==
    IF s.token = "Decimal" THEN {ParseInt(s.text, 10)}
    ELSE IF s.token = "Real"
    THEN LET int64(f) == IF f.err # NilErr THEN {[v |-> I64Zero, err |-> f.err]}
                          ELSE {[v |-> z, err |-> NilErr] : z \in truncInt64(f.v)}
         IN int64(ParseFloat(s.text))
    ELSE IF s.token = "Radix"
    THEN LET parts == SplitN2(s.text, Hash)
             r == ParseInt(parts[1], 10)
             v == ParseInt(parts[2], smallInt(r.v))
         IN IF r.err # NilErr THEN {[v |-> I64Zero, err |-> r.err]}
            ELSE IF v.err # NilErr THEN {[v |-> I64Zero, err |-> v.err]}
            ELSE {v}
    ELSE {[v |-> I64Zero, err |-> ErrInvalidFormat]}

ScannerFloat64NoDefault(s) ==
    IF s.token = "Real" THEN {ParseFloat(s.text)}
    ELSE IF s.token \in {"Decimal", "Radix"}
    THEN {IF z.err # NilErr THEN [v |-> F64Zero, err |-> z.err]
          ELSE [v |-> floatOfInt64(z.v), err |-> NilErr] : z \in ScannerInt64(s)}
    ELSE {[v |-> F64Zero, err |-> NilErr]}

(* The results of Scanner.Float64. *)
ScannerFloat64(s) ==
    IF s.token = "Real" THEN {ParseFloat(s.text)}
    ELSE IF s.token \in {"Decimal", "Radix"}
    THEN {IF z.err # NilErr THEN [v |-> F64Zero, err |-> z.err]
          ELSE [v |-> floatOfInt64(z.v), err |-> NilErr] : z \in ScannerInt64(s)}
    ELSE {[v |-> F64Zero, err |-> ErrInvalidFormat]}

(* What val holds before Int64 or Float64 is called. *)
NoVal == [v |-> I64Zero, err |-> NoCall]

---------------------------------------------------------------------------
(* The table of the pairs of token types that need white space between     *)
(* them, and cmd/psmin, which has a copy of it.                            *)
spaces ==
    [p \in Types |-> [n \in Types |->
        /\ p \in {"Decimal", "Radix", "Real", "Name", "QuotedName", "ImmediateName"}
        /\ n \in {"Decimal", "Radix", "Real", "Name"}]]

NeedSpaceBetween(prev, next) == spaces[prev][next]

psminSpacesNoQuoted ==
    [p \in Types |-> [n \in Types |->
        /\ p \in {"Decimal", "Radix", "Real", "Name", "ImmediateName"}
        /\ n \in {"Decimal", "Radix", "Real", "Name"}]]

psminSpaces ==
    [p \in Types |-> [n \in Types |->
        /\ p \in {"Decimal", "Radix", "Real", "Name", "QuotedName", "ImmediateName"}
        /\ n \in {"Decimal", "Radix", "Real", "Name"}]]

needsSpace(prev, cur) == psminSpaces[prev][cur]

(* The loop of psmin's scan: s the scanner, last the type of the last      *)
(* token written, w the bytes written, tk the tokens Next has produced.    *)
(* scanBody is the body of the loop for the token cur of text t.           *)
scanBody(cur, t, last, w) ==
    IF cur = "Comment" THEN [last |-> last, w |-> w]
    ELSE [last |-> cur, w |-> (IF needsSpace(last, cur) THEN Append(w, SP) ELSE w) \o t]

RECURSIVE scanLoop(_, _, _, _)
scanNext(r, last, w, tk) ==
    IF r.ret # NilErr THEN [s |-> r.s, w |-> Append(w, LF), tk |-> tk]
    ELSE scanLoop(r.s, scanBody(r.s.token, r.s.text, last, w).last,
                  scanBody(r.s.token, r.s.text, last, w).w,
                  Append(tk, <<r.s.token, r.s.text>>))
scanLoop(s, last, w, tk) == scanNext(ScannerNext(s), last, w, tk)

(* scan(w, r) of psmin: the bytes written and the error returned; calls   *)
(* is how many of its calls of Next returned nil or a syntax error.        *)
scanResult(r) ==
    [s |-> r.s, w |-> r.w, tk |-> r.tk,
     ret |-> IF r.s.err = EOFErr THEN NilErr ELSE r.s.err,
     calls |-> Len(r.tk) + (IF r.s.err \in {EOFErr, IOErr} THEN 0 ELSE 1)]
psminScan(in) == scanResult(scanLoop(New(in), "Invalid", <<>>, <<>>))

---------------------------------------------------------------------------
(* The state machine.                                                      *)
Scanner == [input |-> input, rd |-> rd, text |-> text, token |-> token,
            err |-> err, pos |-> pos, end |-> end,
            failAt |-> failAt, sticky |-> sticky, failed |-> failed]

RECURSIVE Strings(_, _)
Strings(A, n) == IF n = 0 THEN {<<>>}
                 ELSE LET S == Strings(A, n - 1)
                      IN S \cup {Append(t, a) : t \in {u \in S : Len(u) = n - 1}, a \in A}

(* The arguments of cmd/psmin: none asked (NoName), "-" for stdin, the     *)
(* name of a file os.Open opens, the name of a file os.Open cannot open.   *)
NoName == "none"
Stdin == "-"
File == "file"
Missing == "missing"
(* Nothing passed to log.Fatalf; the error of an os.Open that fails. *)
NoFatal == <<>>
OpenErr == MkErr("open failure", 0)

(* New on a stream of the bytes in whose read number at fails (none when   *)
(* at = 0), and fails from then on when st.                                *)
InitNamed(in, at, st, nm) ==
    /\ input = in
    /\ rd = 0 /\ text = <<>> /\ token = "Invalid" /\ err = NilErr
    /\ pos = 0 /\ end = 0
    /\ ret = NoCall /\ op = "New" /\ str = <<>> /\ toks = <<>>
    /\ val = NoVal /\ out = <<>>
    /\ failAt = at /\ sticky = st /\ failed = FALSE
    /\ calls = 0 /\ name = nm /\ fatal = NoFatal

InitStream(in, at, st) == InitNamed(in, at, st, NoName)

InitWith(in) == InitStream(in, 0, FALSE)

CallNext ==
    LET r == ScannerNext(Scanner) IN
    /\ rd' = r.s.rd /\ text' = r.s.text /\ token' = r.s.token
    /\ err' = r.s.err /\ pos' = r.s.pos /\ end' = r.s.end
    /\ ret' = r.ret /\ op' = "Next"
    /\ toks' = IF r.ret = NilErr THEN Append(toks, <<r.s.token, r.s.text>>) ELSE toks
    /\ failed' = r.s.failed
    /\ calls' = IF r.ret \in {EOFErr, IOErr} THEN calls ELSE calls + 1
    /\ UNCHANGED <<input, str, val, out, failAt, sticky, name, fatal>>

(* String() that takes the bytes out of the buffer it reads. *)
CallStringDrains ==
    /\ str' = ScannerString(Scanner)
    /\ op' = "String"
    /\ text' = <<>>
    /\ UNCHANGED <<input, rd, token, err, pos, end, ret, toks, val, out,
                   failAt, sticky, failed, calls, name, fatal>>

CallString ==
    /\ str' = ScannerString(Scanner)
    /\ op' = "String"
    /\ UNCHANGED <<input, rd, text, token, err, pos, end, ret, toks, val, out,
                   failAt, sticky, failed, calls, name, fatal>>

CallInt64 ==
    /\ \E r \in ScannerInt64(Scanner) : val' = r
    /\ op' = "Int64"
    /\ UNCHANGED <<input, rd, text, token, err, pos, end, ret, toks, str, out,
                   failAt, sticky, failed, calls, name, fatal>>

CallFloat64 ==
    /\ \E r \in ScannerFloat64(Scanner) : val' = r
    /\ op' = "Float64"
    /\ UNCHANGED <<input, rd, text, token, err, pos, end, ret, toks, str, out,
                   failAt, sticky, failed, calls, name, fatal>>

(* psmin's scan of the whole input, on the scanner of its stream; r is    *)
(* what the scan gives.                                                    *)
PsminScanned(r) ==
    /\ rd' = r.s.rd /\ text' = r.s.text /\ token' = r.s.token
    /\ err' = r.s.err /\ pos' = r.s.pos /\ end' = r.s.end
    /\ failed' = r.s.failed
    /\ ret' = r.ret /\ out' = r.w /\ toks' = r.tk
    /\ calls' = r.calls

PsminScan ==
    /\ op = "New"
    /\ PsminScanned(scanResult(scanLoop(Scanner, "Invalid", <<>>, <<>>)))
    /\ op' = "psmin"
    /\ UNCHANGED <<input, str, val, failAt, sticky, name, fatal>>

(* Type, Text, Pos, End and Err return a field of the scanner. *)
CallAccessor ==
    /\ op' \in {"Err", "Type", "Text", "Pos", "End"}
    /\ UNCHANGED <<input, rd, text, token, err, pos, end, ret, toks, str, val, out,
                   failAt, sticky, failed, calls, name, fatal>>

(* main of cmd/psmin on one argument.  err is the variable main declares   *)
(* in the loop, nil until a scan is assigned to it; oerr is what os.Open   *)
(* returned.  The test after os.Open is on err.  The file os.Open gives    *)
(* when it fails is nil, and every read of a nil file fails: its stream is *)
(* the state's (no bytes, the first read failing, and every later one).    *)
PsminMain ==
    /\ op = "New" /\ name # NoName
    /\ LET mainErr == NilErr
           oerr == IF name = Missing THEN OpenErr ELSE NilErr
       IN
       IF name # Stdin /\ mainErr # NilErr
       THEN /\ fatal' = [msg |-> "Input", err |-> oerr]
            /\ op' = "main"
            /\ UNCHANGED <<rd, text, token, err, pos, end, ret, toks, out, failed, calls>>
       ELSE /\ PsminScanned(scanResult(scanLoop(Scanner, "Invalid", <<>>, <<>>)))
            /\ op' = "psmin"
            /\ fatal' = IF ret' # NilErr THEN [msg |-> "Processing", err |-> ret']
                                         ELSE NoFatal
    /\ UNCHANGED <<input, str, val, failAt, sticky, name>>

(* The inputs are every string of at most MaxLen bytes of an alphabet, and *)
(* inputs of the package's tests.  This alphabet gives every kind of       *)
(* token: white space, a comment, the three literals, names, numbers and   *)
(* brackets.                                                               *)
MaxLen == 4
Alphabet == {LF, Percent, LParen, RParen, Backslash, LAngle, RAngle, Tilde,
             Slash, LBrace, LowA, Ch0 + 1}

(* Inputs of TestRawTokens, TestString and TestScanErrors. *)
Tests == {
    <<32, 32, 40, 97, 10, 32, 98, 32, 99, 92, 41, 32, 100, 101, 102, 41>>,
    <<37, 32, 104, 101, 108, 108, 111, 12, 32, 37, 32, 119, 111, 114, 108, 100, 10, 32>>,
    <<97, 32, 47, 98, 32, 47, 47, 99, 32, 36, 100, 32>>,
    <<101, 97, 116, 47, 121, 111, 117, 114, 47, 47, 118, 101, 103, 103, 105, 101, 115>>,
    <<32, 40, 97, 32, 40, 98, 32, 99, 41, 10, 32, 100, 41, 10>>,
    <<60, 54, 54, 32, 54, 102, 32, 54, 102, 62, 60, 126, 32, 32, 65, 111, 68, 83, 32, 32, 126, 62>>,
    <<40, 117, 110, 116, 101, 114, 109, 105, 110, 97, 116, 101, 100, 32, 115, 116, 114, 105, 110, 103>>,
    <<60, 97, 99, 32, 57, 101, 32, 51, 48>>,
    <<60, 126, 32, 97, 112, 112, 108, 101, 32, 112, 105, 101, 32>>,
    <<60, 32, 66, 79, 71, 85, 83, 32, 72, 69, 88, 62>>,
    <<60, 126, 32, 120, 120, 120, 32, 105, 115, 32, 110, 111, 116, 32, 108, 101, 103, 97, 108, 32, 65, 56, 53, 32, 120, 120, 120, 32, 126, 62>>,
    <<60, 126, 32, 97, 108, 108, 32, 103, 111, 111, 100, 32, 115, 111, 32, 102, 97, 114, 32, 111, 111, 112, 115, 32, 126, 32, 126, 62>>}
Init == \E in \in Strings(Alphabet, MaxLen) \cup Tests : InitWith(in)
Next == CallNext
Spec == Init /\ [][Next]_vars

(* Names and numbers: the bytes the three number shapes are made of, and   *)
(* the inputs of TestTokenTypes.                                           *)
MaxNumLen == 5
NumAlphabet == {Minus, PlusSign, Ch0 + 1, Dot, LowE, Hash, Slash}
NumTests == {
    <<45, 46, 48, 48, 50, 32, 49, 50, 51, 32, 45, 57, 56, 32, 49, 54, 35, 70, 70, 70, 69>>,
    <<48, 46, 49, 101, 49, 32, 53, 51, 32, 45, 49, 57, 32, 53, 35, 49, 49, 48, 51, 48, 52, 32, 45, 57, 46, 32, 54, 46, 54, 55, 69, 45, 49, 57, 32, 53, 46, 101, 43, 51, 32, 48, 46, 48>>,
    <<47, 47, 105, 109, 109, 47, 111, 47, 108, 97, 116, 105, 111, 110>>,
    <<47, 47, 47>>,
    <<50, 35, 90, 90, 90, 90, 32, 49, 69, 54, 32, 43, 49, 55, 32, 49, 46, 48, 69, 45, 53>>}
InitNum == \E in \in Strings(NumAlphabet, MaxNumLen) \cup NumTests : InitWith(in)
SpecNum == InitNum /\ [][Next]_vars

(* Brackets and the doubled angle brackets among names.                    *)
MaxPunctLen == 4
PunctAlphabet == {LBrack, RBrack, LBrace, RBrace, LAngle, RAngle, LowA, Slash, SP}
PunctExample == <<123, 97, 60, 60, 98, 62, 62, 99, 91, 100, 93, 125>>
PunctTests == {
    PunctExample,
    <<91, 102, 117, 108, 108, 32, 47, 112, 108, 97, 116, 101, 32, 40, 97, 110, 100, 41, 32, 123, 112, 97, 99, 107, 105, 110, 103, 125, 93, 60, 60, 115, 116, 101, 101, 108, 62, 62>>,
    <<91, 97, 108, 112, 104, 97, 47, 98, 114, 97, 118, 111, 93, 32, 37, 32, 111, 107, 10, 123, 99, 104, 97, 114, 108, 105, 101, 32, 49, 125>>}
InitPunct == \E in \in Strings(PunctAlphabet, MaxPunctLen) \cup PunctTests : InitWith(in)
SpecPunct == InitPunct /\ [][Next]_vars

(* String literals, scanned and then decoded by String().                  *)
MaxStrLen == 6
StrAlphabet == {LParen, RParen, Backslash, Ch0 + 1, LowA}
OctalTest == <<40, 92, 48, 48, 48, 92, 48, 48, 49, 92, 48, 48, 50, 41>>
StrTests == {
    OctalTest,
    <<32, 40, 97, 32, 40, 98, 32, 99, 41, 10, 32, 100, 41, 10>>,
    <<40, 97, 98, 99, 92, 40, 100, 101, 102, 41>>,
    <<40, 92, 41, 92, 92, 92, 41, 41>>,
    <<40, 97, 32, 92, 40, 98, 32, 99, 41>>,
    <<40, 97, 98, 92, 10, 99, 100, 92, 13, 101, 102, 92, 13, 10, 103, 104, 41>>}
InitStr == \E in \in Strings(StrAlphabet, MaxStrLen) \cup StrTests : InitWith(in)
NextStr == CallNext \/ CallString
SpecStr == InitStr /\ [][NextStr]_vars

(* White space: the six white-space bytes and one that is not.             *)
MaxWsLen == 3
WsAlphabet == {NUL, TAB, LF, FF, CR, SP, LowA}
InitWs == \E in \in Strings(WsAlphabet, MaxWsLen) : InitWith(in)
SpecWs == InitWs /\ [][Next]_vars

(* The escapes of string literals: the literals "(" body ")" whose body is *)
(* at most MaxEscLen bytes of an alphabet with the backslash and the line  *)
(* terminators, one escape of every byte, and the literals of TestString.  *)
MaxEscLen == 4
EscAlphabet == {Backslash, CR, LF, LowN, LParen, RParen, LowA}
EscPairs == {<<LParen, Backslash, c, RParen>> : c \in 0 .. 255}
InitEsc == \E in \in {<<LParen>> \o b \o <<RParen>> : b \in Strings(EscAlphabet, MaxEscLen)}
                        \cup EscPairs \cup StrTests : InitWith(in)
SpecEsc == InitEsc /\ [][NextStr]_vars

(* Hex strings: the literals "<" body ">" whose body is at most MaxHexLen  *)
(* bytes of hex digits of the three kinds and white space, and the hex     *)
(* literals of TestString.                                                 *)
MaxHexLen == 4
HexAlphabet == {Ch0, Ch0 + 5, LowF, UpA, SP}
HexTests == {
    <<60, 62, 32, 60, 32, 32, 62, 32, 60, 53, 48, 62, 32, 60, 53, 62>>,
    <<60, 54, 54, 32, 54, 102, 32, 54, 102, 62>>,
    <<60, 51, 50, 32, 51, 49, 32, 51, 62>>}
InitHex == \E in \in {<<LAngle>> \o b \o <<RAngle>> : b \in Strings(HexAlphabet, MaxHexLen)}
                        \cup HexTests : InitWith(in)
SpecHex == InitHex /\ [][NextStr]_vars

(* Decimal integers and their values: signs, three digits and a space;     *)
(* the inputs of TestTokenValues; numbers that are no float64 (0.1,        *)
(* 2^53 + 1, 2^63 - 1 as a real, one over the largest float64, and one     *)
(* under the smallest).  Next, Int64 and Float64 are called.               *)
MaxDecLen == 4
DecAlphabet == {Minus, PlusSign, Ch0, Ch0 + 1, Ch0 + 2, SP}
DecTests == {
    <<45, 50, 32, 45, 49, 32, 48, 32, 49, 32, 50>>,
    <<45, 50, 46, 48, 32, 45, 49, 32, 48, 46, 48, 32, 48, 46, 49, 101, 49, 32, 48, 46, 48, 48, 50, 101, 51>>}
InitDec ==
    \E in \in Strings(DecAlphabet, MaxDecLen) \cup DecTests \cup {
            <<48, 46, 49, 32, 57, 48, 48, 55, 49, 57, 57, 50, 53, 52, 55, 52, 48, 57, 57, 51>>,
            <<57, 50, 50, 51, 51, 55, 50, 48, 51, 54, 56, 53, 52, 55, 55, 53, 56, 48, 55, 46>>,
            <<49, 46, 56, 101, 51, 48, 56, 32, 51, 101, 45, 51, 50, 52>>} :
        InitWith(in)
NextVal == CallNext \/ CallInt64 \/ CallFloat64
SpecDec == InitDec /\ [][NextVal]_vars

(* The value accessors on tokens of every type: the inputs of Spec, up to  *)
(* MaxQLen bytes, and the brackets example, with Next, Int64 and Float64   *)
(* called.                                                                 *)
MaxQLen == 3
InitQ == \E in \in Strings(Alphabet, MaxQLen) \cup Tests \cup {PunctExample} : InitWith(in)
SpecQ == InitQ /\ [][NextVal]_vars

(* Radix numbers and their values: digits, the '#', a letter that is a     *)
(* digit of a base over 11 and one of a base over 35; the radix numbers of *)
(* the tests.                                                              *)
MaxRadixLen == 4
RadixAlphabet == {Ch0, Ch0 + 1, Ch0 + 3, Hash, LowB, UpZ}
RadixTests == {
    <<49, 54, 35, 70, 70, 70, 69>>,
    <<50, 35, 90, 90, 90, 90>>,
    <<53, 35, 49, 49, 48, 51, 48, 52>>,
    <<50, 35, 49, 49, 48, 49>>,
    <<51, 54, 35, 122, 90>>,
    <<51, 55, 35, 49>>}
InitRadix == \E in \in Strings(RadixAlphabet, MaxRadixLen) \cup RadixTests : InitWith(in)
SpecRadix == InitRadix /\ [][NextVal]_vars

(* Tokens next to each other: the two kinds of token that stand alone,     *)
(* a bare slash and a bracket, with and without a space between them.      *)
MaxSepLen == 4
SepAlphabet == {Slash, SP, LBrace, RBrace}
InitSep == \E in \in Strings(SepAlphabet, MaxSepLen) : InitWith(in)
SpecSep == InitSep /\ [][Next]_vars

(* psmin: names, numbers, comments, strings and brackets, with spaces and  *)
(* line ends between them; psmin scans the whole input in one step.        *)
MaxMinLen == 4
MinAlphabet == {Slash, SP, LF, Percent, LowA, Ch0 + 1, LBrace, LParen, RParen}
MinTests == {
    <<91, 97, 108, 112, 104, 97, 47, 98, 114, 97, 118, 111, 93, 32, 37, 32, 111, 107, 10, 123, 99, 104, 97, 114, 108, 105, 101, 32, 49, 125>>,
    <<37, 32, 68, 114, 97, 119, 32, 97, 32, 108, 105, 110, 101, 10, 47, 105, 110, 32, 123, 32, 55, 50, 32, 109, 117, 108, 32, 125, 32, 100, 101, 102, 10, 47, 109, 116, 32, 123, 32, 109, 111, 118, 101, 116, 111, 32, 125, 32, 100, 101, 102, 10, 110, 101, 119, 112, 97, 116, 104, 10, 32, 32, 46, 53, 32, 105, 110, 32, 46, 53, 32, 105, 110, 32, 109, 116, 32, 32, 32, 37, 32, 117, 115, 101, 32, 104, 97, 108, 102, 32, 105, 110, 99, 104, 32, 109, 97, 114, 103, 105, 110, 115>>}
InitMin == \E in \in Strings(MinAlphabet, MaxMinLen) \cup MinTests : InitWith(in)
NextMin == PsminScan
SpecMin == InitMin /\ [][NextMin]_vars

(* Streams that fail: a read of the stream, any from the first to the one  *)
(* after the last byte, returns an error that is not io.EOF, once or from  *)
(* then on.  The alphabet starts every sub-scan of Next.                   *)
MaxIOLen == 3
IOAlphabet == {SP, Percent, LParen, LAngle, Tilde, RAngle, LowA}
InitIO == \E in \in Strings(IOAlphabet, MaxIOLen) : \E at \in 1 .. Len(in) + 1 :
              \E st \in BOOLEAN : InitStream(in, at, st)
SpecIO == InitIO /\ [][Next]_vars

(* Comments: the '%', the three line terminators, a space and a letter;    *)
(* the comments of the tests.                                              *)
MaxComLen == 4
ComAlphabet == {Percent, LF, FF, CR, SP, LowA}
ComTests == {
    <<37, 32, 104, 101, 108, 108, 111, 12, 32, 37, 32, 119, 111, 114, 108, 100, 10, 32>>,
    <<37, 32, 102, 111, 111, 10, 37, 32, 98, 97, 114, 12, 10, 37, 32, 98, 97, 122, 10, 32>>}
InitCom == \E in \in Strings(ComAlphabet, MaxComLen) \cup ComTests : InitWith(in)
SpecCom == InitCom /\ [][Next]_vars

(* Ascii85 strings: "<~" and then at most MaxA85Len bytes of the closing   *)
(* quote's two bytes, the first and the last ascii85 digit, the byte after *)
(* the last digit and a space; the ascii85 inputs of the tests.            *)
MaxA85Len == 4
A85Alphabet == {Tilde, RAngle, Bang, LowU, LowU + 1, SP}
A85Tests == {
    <<60, 126, 32, 97, 112, 112, 108, 101, 32, 112, 105, 101, 32>>,
    <<60, 126, 32, 120, 120, 120, 32, 105, 115, 32, 110, 111, 116, 32, 108, 101, 103, 97, 108, 32, 65, 56, 53, 32, 120, 120, 120, 32, 126, 62>>,
    <<60, 126, 32, 97, 108, 108, 32, 103, 111, 111, 100, 32, 115, 111, 32, 102, 97, 114, 32, 111, 111, 112, 115, 32, 126, 32, 126, 62>>,
    <<60, 126, 126, 62, 32, 60, 126, 32, 32, 126, 62, 32, 60, 126, 32, 65, 111, 68, 83, 32, 126, 62>>}
InitA85 == \E in \in {<<LAngle, Tilde>> \o b : b \in Strings(A85Alphabet, MaxA85Len)}
                        \cup A85Tests : InitWith(in)
SpecA85 == InitA85 /\ [][Next]_vars

(* The calls between two calls of Next: String, Int64, Float64 and the     *)
(* accessors, in any order, on inputs with a string, a number, a name and  *)
(* an error.                                                               *)
MaxFrameLen == 3
FrameAlphabet == {SP, LParen, RParen, Ch0 + 1, LowA, LAngle}
InitFrame ==
    \E in \in Strings(FrameAlphabet, MaxFrameLen) \cup {<<Percent, 194, 160, LowA, SP, LF>>} :
        InitWith(in)
NextFrame == CallNext \/ CallString \/ CallInt64 \/ CallFloat64 \/ CallAccessor
SpecFrame == InitFrame /\ [][NextFrame]_vars

(* main of cmd/psmin on stdin, on a file that opens, and on a name that    *)
(* os.Open cannot open.                                                    *)
MaxMainLen == 3
InitMain ==
    \/ \E in \in Strings(MinAlphabet, MaxMainLen) \cup MinTests :
           \E nm \in {Stdin, File} : InitNamed(in, 0, FALSE, nm)
    \/ InitNamed(<<>>, 1, TRUE, Missing)
NextMain == PsminMain
SpecMain == InitMain /\ [][NextMain]_vars

---------------------------------------------------------------------------
(* What the claims speak of.                                               *)
Returned(e) == op = "Next" /\ ret = e
Succeeded == Returned(NilErr)
NamelikeTypes == {"Decimal", "Radix", "Real", "Name", "QuotedName", "ImmediateName"}
At(in, i) == IF i >= 1 /\ i <= Len(in) THEN in[i] ELSE -1
(* The white-space bytes and the special bytes, as the claims list them.   *)
WhiteSpaceBytes == {NUL, TAB, LF, FF, CR, SP}
SpecialBytes == {LParen, RParen, LAngle, RAngle, LBrack, RBrack, LBrace, RBrace,
                 Slash, Percent}
isRegular(b) == b >= 0 /\ b \notin WhiteSpaceBytes /\ b \notin SpecialBytes

(* C1: after every Next that returns nil, Text() is the slice of the input *)
(* that starts at offset Pos() and has the length of Text(), delimiters    *)
(* included and no escape decoded.                                         *)
C1_TextIsInputSlice ==
    Succeeded => /\ pos >= 0
                 /\ pos + Len(text) <= Len(input)
                 /\ text = SubSeq(input, pos + 1, pos + Len(text))

C1_Witness ==
    /\ Succeeded /\ token = "LitString" /\ pos > 0
    /\ \E i \in 1 .. Len(text) : text[i] = Backslash

(* C2: after every Next that returns nil the offsets delimit the text:     *)
(* End() - Pos() = len(Text()), also for a token ended by end of input.    *)
C2_OffsetsDelimitText == Succeeded => end - pos = Len(text)

(* C3: a name/number token runs to the first white space, special byte or  *)
(* end of input, which is pushed back; only a leading "//" is absorbed and *)
(* only a leading "<<" or ">>" ends the token after two bytes.             *)
RECURSIVE RegularRunEnd(_, _)
RegularRunEnd(in, i) == IF isRegular(At(in, i)) THEN RegularRunEnd(in, i + 1) ELSE i

NamelikeEnd(in, p) ==
    LET f == At(in, p)
        g == At(in, p + 1)
    IN IF f = Slash THEN RegularRunEnd(in, IF g = Slash THEN p + 2 ELSE p + 1)
       ELSE IF f \in {LAngle, RAngle} /\ g = f THEN p + 2
       ELSE RegularRunEnd(in, p + 1)

C3_NamelikeExtent ==
    (Succeeded /\ token \in NamelikeTypes /\ text \notin {<<LBrack>>, <<RBrack>>})
        => /\ pos + Len(text) + 1 = NamelikeEnd(input, pos + 1)
           /\ rd = pos + Len(text)

(* C4: the type of a name/number token is decided from its text by the    *)
(* first rule that matches: "//" ImmediateName, "/" QuotedName, the Real   *)
(* shape, the Decimal shape, the Radix shape, else Name.                   *)
AllIn(t, i, j, C) == \A k \in i .. j : t[k] \in C
IsDigits(t, i, j) == i <= j /\ AllIn(t, i, j, DigitCls)
(* t[x..] is an exponent: e or E, an optional sign, one or more digits *)
ExpShape(t, x) ==
    /\ At(t, x) \in {LowE, UpE}
    /\ LET d == IF At(t, x + 1) \in {Minus, PlusSign} THEN x + 2 ELSE x + 1
       IN IsDigits(t, d, Len(t))
RealShape(t) ==
    LET b == IF At(t, 1) = Minus THEN 2 ELSE 1 IN
    \/ \E x \in b + 1 .. Len(t) : IsDigits(t, b, x - 1) /\ ExpShape(t, x)
    \/ \E d \in b .. Len(t) : \E x \in d + 1 .. Len(t) + 1 :
          /\ t[d] = Dot
          /\ AllIn(t, b, d - 1, DigitCls) /\ AllIn(t, d + 1, x - 1, DigitCls)
          /\ (d > b \/ x > d + 1)
          /\ (x = Len(t) + 1 \/ ExpShape(t, x))
DecimalShape(t) ==
    IsDigits(t, IF At(t, 1) \in {Minus, PlusSign} THEN 2 ELSE 1, Len(t))
RadixShape(t) ==
    \E h \in 2 .. Len(t) - 1 :
        t[h] = Hash /\ IsDigits(t, 1, h - 1) /\ AllIn(t, h + 1, Len(t), AlnumCls)
ShapeType(t) ==
    IF At(t, 1) = Slash /\ At(t, 2) = Slash THEN "ImmediateName"
    ELSE IF At(t, 1) = Slash THEN "QuotedName"
    ELSE IF RealShape(t) THEN "Real"
    ELSE IF DecimalShape(t) THEN "Decimal"
    ELSE IF RadixShape(t) THEN "Radix"
    ELSE "Name"

C4_TypeByFirstRule ==
    (Succeeded /\ token \in NamelikeTypes) => token = ShapeType(text)

C4_Witness ==
    /\ Succeeded /\ token = "Real" /\ Len(text) = MaxNumLen
    /\ text[1] = Minus /\ \E i \in 1 .. Len(text) : text[i] = LowE

(* C5: the punctuation tokens are self-delimiting: "[" and "]" are        *)
(* one-byte Names, "{" a one-byte Left, "}" a one-byte Right, "<<" and     *)
(* ">>" two-byte Names, whatever precedes or follows; none of their bytes  *)
(* is taken into a name/number token, and "{a<<b>>c[d]}" gives the ten     *)
(* tokens { a << b >> c [ d ] }.                                           *)
BracketBytes == {LBrack, RBrack, LBrace, RBrace, LAngle, RAngle}
PunctExampleTokens ==
    << <<"Left", <<LBrace>>>>, <<"Name", <<LowA>>>>, <<"Name", <<LAngle, LAngle>>>>,
       <<"Name", <<LowB>>>>, <<"Name", <<RAngle, RAngle>>>>, <<"Name", <<99>>>>,
       <<"Name", <<LBrack>>>>, <<"Name", <<100>>>>, <<"Name", <<RBrack>>>>,
       <<"Right", <<RBrace>>>> >>

C5_SelfDelimiting ==
    /\ Succeeded =>
         LET f == At(input, pos + 1)
             g == At(input, pos + 2)
         IN /\ f \in {LBrack, RBrack} => (text = <<f>> /\ token = "Name")
            /\ f = LBrace => (text = <<f>> /\ token = "Left")
            /\ f = RBrace => (text = <<f>> /\ token = "Right")
            /\ (f \in {LAngle, RAngle} /\ g = f) => (text = <<f, f>> /\ token = "Name")
            /\ (f \in {LBrack, RBrack, LBrace, RBrace} \/ (f \in {LAngle, RAngle} /\ g = f))
                  => rd = pos + Len(text)
            /\ (token \in NamelikeTypes /\ text \notin {<<LAngle, LAngle>>, <<RAngle, RAngle>>})
                  => \A i \in 2 .. Len(text) : text[i] \notin BracketBytes
    /\ (input = PunctExample /\ Returned(EOFErr)) => toks = PunctExampleTokens

C5_Witness == input = PunctExample /\ Returned(EOFErr) /\ Len(toks) = 10

(* C6: a string literal ends, as a LitString, exactly at the first         *)
(* unescaped ")" that brings the depth (1 after the opening "(", +1 for an *)
(* unescaped "(", -1 for an unescaped ")") to 0; a backslash escapes       *)
(* exactly the next byte, another backslash included.                      *)
RECURSIVE BackslashRun(_, _)
BackslashRun(t, k) == IF k > 1 /\ t[k - 1] = Backslash THEN 1 + BackslashRun(t, k - 1) ELSE 0
Unescaped(t, k, b) == t[k] = b /\ BackslashRun(t, k) % 2 = 0
ParenDepth(t, i) == 1 + Cardinality({k \in 2 .. i : Unescaped(t, k, LParen)})
                      - Cardinality({k \in 2 .. i : Unescaped(t, k, RParen)})
ClosesAt(t, i) == Unescaped(t, i, RParen) /\ ParenDepth(t, i) = 0

C6_StringEndsAtDepthZero ==
    (op = "Next" /\ text # <<>> /\ text[1] = LParen) =>
        /\ \A i \in 2 .. Len(text) - 1 : ~ClosesAt(text, i)
        /\ ret = NilErr <=> (Len(text) >= 2 /\ ClosesAt(text, Len(text)))
        /\ ret = NilErr <=> token = "LitString"
        /\ ret # NilErr => (ret = MkErr("unterminated string", 0) /\ rd = Len(input))

C6_Witness ==
    /\ Succeeded /\ token = "LitString"
    /\ \E i, j, k \in 2 .. Len(text) - 1 :
          /\ Unescaped(text, i, LParen)
          /\ Unescaped(text, j, RParen)
          /\ text[k] = RParen /\ ~Unescaped(text, k, RParen)

(* C7: when the input ends inside a "(" string, a "<" hex literal or a     *)
(* "<~" ascii85 literal, the Next call that reaches the end of the input   *)
(* returns a syntax error, Err() reports it, and only the call after it    *)
(* returns io.EOF.                                                         *)
SyntaxMsgs == {"unterminated string", "unterminated hex string",
               "unterminated ascii85 string", "invalid closing ascii85 quote",
               "invalid hex", "invalid ascii85"}
IsSyntaxErr(e) == e.msg \in SyntaxMsgs
Suffix(in, r) == SubSeq(in, r + 1, Len(in))
RECURSIVE SkipSpace(_, _)
SkipSpace(in, i) == IF i <= Len(in) /\ in[i] \in WhiteSpaceBytes THEN SkipSpace(in, i + 1) ELSE i
(* in[p..] is a literal that the end of the input cuts off *)
EndsInsideString(in, p) ==
    At(in, p) = LParen /\ \A i \in p + 1 .. Len(in) : ~ClosesAt(Suffix(in, p - 1), i - p + 1)
EndsInsideHex(in, p) ==
    /\ At(in, p) = LAngle /\ At(in, p + 1) \notin {LAngle, Tilde}
    /\ \A i \in p + 1 .. Len(in) : isHex(in[i]) \/ isSpace(in[i])
EndsInsideA85(in, p) ==
    /\ At(in, p) = LAngle /\ At(in, p + 1) = Tilde
    /\ \A i \in p + 2 .. Len(in) - 1 : isA85(in[i]) \/ isSpace(in[i])
    /\ Len(in) >= p + 2 => (isA85(in[Len(in)]) \/ isSpace(in[Len(in)]) \/ in[Len(in)] = Tilde)
EndsInsideLiteral(in, p) ==
    EndsInsideString(in, p) \/ EndsInsideHex(in, p) \/ EndsInsideA85(in, p)

C7_UnterminatedIsSyntaxError ==
    [][/\ (op' = "Next" /\ EndsInsideLiteral(input, SkipSpace(input, rd + 1)))
          => (IsSyntaxErr(ret') /\ err' = ret' /\ rd' = Len(input) /\ token' = "Invalid")
       /\ (op' = "Next" /\ IsSyntaxErr(ret) /\ rd = Len(input))
          => (ret' = EOFErr /\ err' = EOFErr)]_vars

C7_Witness ==
    /\ op = "Next" /\ ret = MkErr("unterminated hex string", 0) /\ err = ret
    /\ rd = Len(input) /\ toks # <<>>
    /\ text = <<LAngle>> /\ EndsInsideHex(input, pos + 1)

(* C8: on an input that is empty or holds white space only, Next returns   *)
(* io.EOF, produces no token, and Type() is Invalid.                       *)
AllSpace(in) == \A i \in 1 .. Len(in) : in[i] \in WhiteSpaceBytes

C8_BlankInputIsEOF ==
    (op = "Next" /\ AllSpace(input)) =>
        (ret = EOFErr /\ err = EOFErr /\ token = "Invalid" /\ text = <<>> /\ toks = <<>>)

C8_Witness ==
    /\ Returned(EOFErr) /\ AllSpace(input) /\ Len(input) = MaxWsLen
    /\ \E i, j \in 1 .. Len(input) : input[i] = NUL /\ input[j] = FF

(* C9: errors are not sticky: the Next call after one that failed with a   *)
(* syntax error gives what a new scanner gives on the rest of the input,   *)
(* the bytes after the last one the failed call consumed: text, type and   *)
(* error hold nothing of the failed call.                                  *)
C9_ErrorsNotSticky ==
    [][(op' = "Next" /\ IsSyntaxErr(ret)) =>
          LET f == ScannerNext(New(Suffix(input, rd)))
          IN /\ text' = f.s.text /\ token' = f.s.token
             /\ err' = f.s.err /\ ret' = f.ret
             /\ rd' = rd + f.s.rd
             /\ pos' = end + f.s.pos /\ end' = end + f.s.end]_vars

C9_Witness ==
    /\ Succeeded /\ Len(toks) = 1 /\ token = "LitString"
    /\ \E i \in 1 .. pos : input[i] \notin WhiteSpaceBytes

(* C10: String() of a LitString decodes a backslash followed by three      *)
(* octal digits to the one byte of that octal value and consumes the three *)
(* digits, so a literal of n such escapes decodes to n bytes.              *)
IsOctalEscapes(b) ==
    /\ Len(b) > 0 /\ Len(b) % 4 = 0
    /\ \A k \in 1 .. Len(b) :
          IF k % 4 = 1 THEN b[k] = Backslash ELSE isOctal(b[k])
OctalValues(b) ==
    [k \in 1 .. Len(b) \div 4 |->
        (64 * (b[4 * k - 2] - Ch0) + 8 * (b[4 * k - 1] - Ch0) + (b[4 * k] - Ch0)) % 256]

C10_OctalEscapeIsOneByte ==
    (op = "String" /\ token = "LitString" /\ IsOctalEscapes(SubSeq(text, 2, Len(text) - 1)))
        => str = OctalValues(SubSeq(text, 2, Len(text) - 1))

(* C11: String() of a LitString drops a backslash followed by CR, LF or    *)
(* CR-LF together with that line terminator, maps the short escapes        *)
(* n r t b f \ ( ) to their character, emits any other escaped byte        *)
(* without its backslash and copies the bytes outside an escape.  (An      *)
(* escaped octal digit that starts three octal digits is the octal escape  *)
(* of C10, not one of these.)                                              *)
ShortEscapes == {LowN, LowR, LowT, LowB, LowF, Backslash, LParen, RParen}
ShortEscape(c) ==
    CASE c = LowN -> LF [] c = LowR -> CR [] c = LowT -> TAB
      [] c = LowB -> BS [] c = LowF -> FF [] OTHER -> c
IsOctalDigit(c) == c >= Ch0 /\ c <= Ch7
(* The length of the escape that starts with the backslash at b[i]. *)
EscapeLen(b, i) ==
    IF At(b, i + 1) = CR /\ At(b, i + 2) = LF THEN 3
    ELSE IF i < Len(b) THEN 2 ELSE 1
StartsOctalEscape(b, i) ==
    IsOctalDigit(At(b, i + 1)) /\ IsOctalDigit(At(b, i + 2)) /\ IsOctalDigit(At(b, i + 3))
(* Some escape of the body b, read from b[i] on, is an octal escape. *)
RECURSIVE HasOctalEscape(_, _)
HasOctalEscape(b, i) ==
    IF i > Len(b) THEN FALSE
    ELSE IF b[i] # Backslash THEN HasOctalEscape(b, i + 1)
    ELSE StartsOctalEscape(b, i) \/ HasOctalEscape(b, i + EscapeLen(b, i))
(* What the body b decodes to, read from b[i] on. *)
RECURSIVE Unescape(_, _)
Unescape(b, i) ==
    IF i > Len(b) THEN <<>>
    ELSE IF b[i] # Backslash THEN <<b[i]>> \o Unescape(b, i + 1)
    ELSE IF i = Len(b) \/ b[i + 1] \in {CR, LF} THEN Unescape(b, i + EscapeLen(b, i))
    ELSE <<ShortEscape(b[i + 1])>> \o Unescape(b, i + 2)

C11_EscapesDecoded ==
    (op = "String" /\ token = "LitString"
        /\ ~HasOctalEscape(SubSeq(text, 2, Len(text) - 1), 1))
        => str = Unescape(SubSeq(text, 2, Len(text) - 1), 1)

C11_Witness ==
    /\ op = "String" /\ token = "LitString"
    /\ \E i \in 1 .. Len(text) - 2 :
          text[i] = Backslash /\ text[i + 1] = CR /\ text[i + 2] = LF
    /\ \E i \in 1 .. Len(text) - 1 : text[i] = Backslash /\ text[i + 1] = LF
    /\ str = <<97, 98, 99, 100, 101, 102, 103, 104>>

(* C12: String() of a HexString with n hex digits between '<' and '>' is   *)
(* ceil(n/2) bytes: white space is skipped, the k-th byte is 16*h+l for    *)
(* the k-th pair of digits (h, l), and an unpaired last digit x gives      *)
(* 16*x.                                                                   *)
HexDigits == (Ch0 .. Ch9) \cup (LowA .. LowF) \cup (UpA .. UpF)
HexDigitValue(c) ==
    IF c \in Ch0 .. Ch9 THEN c - Ch0
    ELSE IF c \in LowA .. LowF THEN 10 + (c - LowA)
    ELSE 10 + (c - UpA)
(* The values of the hex digits of t, in order. *)
RECURSIVE HexDigitsOf(_)
HexDigitsOf(t) ==
    IF t = <<>> THEN <<>>
    ELSE IF t[1] \in HexDigits THEN <<HexDigitValue(t[1])>> \o HexDigitsOf(Tail(t))
    ELSE HexDigitsOf(Tail(t))
HexBytes(t) ==
    LET h == HexDigitsOf(t)
    IN [k \in 1 .. (Len(h) + 1) \div 2 |->
           16 * h[2 * k - 1] + (IF 2 * k <= Len(h) THEN h[2 * k] ELSE 0)]

C12_HexDecoded ==
    (op = "String" /\ token = "HexString") => str = HexBytes(SubSeq(text, 2, Len(text) - 1))

C12_Witness ==
    /\ op = "String" /\ token = "HexString"
    /\ Len(HexDigitsOf(text)) = 5
    /\ \E i \in 1 .. Len(text) : text[i] = SP
    /\ str = <<50, 49, 48>>

(* C13: a signed decimal integer literal of the input that white space or  *)
(* the ends of the input delimit is one Decimal token, the whole literal,  *)
(* and Int64() on it returns the literal's value and a nil error.          *)
RECURSIVE NonSpaceRunEnd(_, _)
NonSpaceRunEnd(in, i) ==
    IF i <= Len(in) /\ in[i] \notin WhiteSpaceBytes THEN NonSpaceRunEnd(in, i + 1) ELSE i
(* The bytes from offset p (0-based) to the next white space or the end. *)
WordAt(in, p) == SubSeq(in, p + 1, NonSpaceRunEnd(in, p + 1) - 1)
(* The current token starts a word that is a decimal literal. *)
OnDecimalLiteral ==
    /\ op # "New" /\ ret = NilErr
    /\ (pos = 0 \/ At(input, pos) \in WhiteSpaceBytes)
    /\ DecimalShape(WordAt(input, pos))
RECURSIVE DigitsValue(_, _, _)
DigitsValue(t, i, n) == IF i > Len(t) THEN n ELSE DigitsValue(t, i + 1, 10 * n + (t[i] - Ch0))
(* The value of a decimal literal of at most nine digits. *)
DecimalValue(t) ==
    LET n == DigitsValue(t, IF t[1] \in {Minus, PlusSign} THEN 2 ELSE 1, 0)
    IN [neg |-> t[1] = Minus /\ n # 0,
        mag |-> <<0, 0, n \div (256 * 256), n % (256 * 256)>>]

C13_DecimalLiteralValue ==
    OnDecimalLiteral =>
        /\ token = "Decimal" /\ text = WordAt(input, pos)
        /\ op = "Int64" => val = [v |-> DecimalValue(WordAt(input, pos)), err |-> NilErr]

(* C14: when the current token is not a Decimal, Radix or Real, Int64()    *)
(* returns (0, ErrInvalidFormat) and so does Float64(), and the call       *)
(* changes nothing of the scanner.                                         *)
NumberTypes == {"Decimal", "Radix", "Real"}
ZeroInt == [neg |-> FALSE, mag |-> <<0, 0, 0, 0>>]
ZeroFloat == [neg |-> FALSE, digits |-> <<>>, scale |-> 0, inf |-> FALSE]
InvalidFormat == MkErr("invalid format", 0)

C14_NonNumberIsInvalidFormat ==
    [][(op' \in {"Int64", "Float64"} /\ token \notin NumberTypes) =>
          /\ val' = [v |-> IF op' = "Int64" THEN ZeroInt ELSE ZeroFloat, err |-> InvalidFormat]
          /\ UNCHANGED <<input, rd, text, token, err, pos, end, failAt, sticky, failed>>]_vars

C14_Witness ==
    /\ op = "Float64" /\ token = "HexString" /\ ret = NilErr
    /\ val = [v |-> ZeroFloat, err |-> InvalidFormat]

(* C15: Int64() on a Radix token b#d returns the integer that d denotes in *)
(* base b when 2 <= b <= 36 and every digit of d is a digit of base b, and *)
(* returns an error when b < 2, b > 36 or a digit of d is not one of base  *)
(* b.                                                                      *)
HashAt(t) == CHOOSE h \in 1 .. Len(t) : t[h] = Hash
RadixBase(t) == DigitsValue(SubSeq(t, 1, HashAt(t) - 1), 1, 0)
RadixDigit(c) ==
    IF c \in Ch0 .. Ch9 THEN c - Ch0
    ELSE IF c \in LowA .. LowZ THEN 10 + (c - LowA)
    ELSE 10 + (c - UpA)
RECURSIVE RadixValue(_, _, _, _)
RadixValue(t, i, b, n) ==
    IF i > Len(t) THEN n ELSE RadixValue(t, i + 1, b, b * n + RadixDigit(t[i]))
RadixIsValid(t) ==
    /\ RadixBase(t) >= 2 /\ RadixBase(t) <= 36
    /\ \A i \in HashAt(t) + 1 .. Len(t) : RadixDigit(t[i]) < RadixBase(t)

C15_RadixValue ==
    (op = "Int64" /\ token = "Radix") =>
        IF RadixIsValid(text)
        THEN LET n == RadixValue(text, HashAt(text) + 1, RadixBase(text), 0)
             IN val = [v |-> [neg |-> FALSE,
                              mag |-> <<0, 0, n \div (256 * 256), n % (256 * 256)>>],
                       err |-> NilErr]
        ELSE val.err # NilErr

(* The tokens, <<type, text>>, that a new scanner yields on the bytes in   *)
(* until Next returns an error.                                            *)
RECURSIVE TokensFrom(_)
TokensFrom(s) ==
    LET r == ScannerNext(s)
    IN IF r.ret # NilErr THEN <<>> ELSE <<<<r.s.token, r.s.text>>>> \o TokensFrom(r.s)
TokensOf(in) == TokensFrom(New(in))

(* C16: for any two tokens the scanner produces, of types p and n,         *)
(* NeedSpaceBetween(p, n) is true exactly when scanning their two raw      *)
(* texts put together with no byte between does not yield the same two     *)
(* tokens.                                                                 *)
C16_SpaceNeededIffRelexDiffers ==
    \A i, j \in 1 .. Len(toks) : i < j =>
        NeedSpaceBetween(toks[i][1], toks[j][1])
            <=> (TokensOf(toks[i][2] \o toks[j][2]) # <<toks[i], toks[j]>>)

(* C17: when the input scans without error, scanning what psmin wrote      *)
(* yields the non-Comment tokens of the input, type and text, in order.    *)
RECURSIVE NonComments(_)
NonComments(tk) ==
    IF tk = <<>> THEN <<>>
    ELSE IF tk[1][1] = "Comment" THEN NonComments(Tail(tk))
    ELSE <<tk[1]>> \o NonComments(Tail(tk))

C17_PsminOutputRescans ==
    (op = "psmin" /\ ret = NilErr) => TokensOf(out) = NonComments(toks)

(* C18: when a read of the stream fails during a call of Next with an      *)
(* error other than io.EOF, wherever in Next it is, Next returns that      *)
(* error and Err() reports it.                                             *)
ReadFailure == MkErr("read failure", 0)
(* A read fails during the step: the stream's first failure, or the read   *)
(* at the failing offset of a stream that keeps failing.                   *)
ReadFailsInStep ==
    \/ ~failed /\ failed'
    \/ failed /\ sticky /\ rd + 1 = failAt

C18_ReadFailureIsReturned ==
    [][(op' = "Next" /\ ReadFailsInStep) => (ret' = ReadFailure /\ err' = ReadFailure)]_vars

(* C19: a call of Next that finds a '%' returns nil with a Comment whose   *)
(* text runs from the '%' through the first LF or form feed, included, or  *)
(* to the end of the input when there is none (a CR does not end it); and  *)
(* after a comment that the end of the input cut off the next call         *)
(* returns io.EOF.                                                         *)
CommentEnders == {LF, FF}
RECURSIVE CommentEnd(_, _)
CommentEnd(in, i) ==
    IF i >= Len(in) \/ in[i] \in CommentEnders THEN i ELSE CommentEnd(in, i + 1)
CutOffComment ==
    ret = NilErr /\ token = "Comment" /\ text[Len(text)] \notin CommentEnders

C19_CommentExtent ==
    [][op' = "Next" =>
          LET p == SkipSpace(input, rd + 1) IN
          /\ At(input, p) = Percent =>
                /\ ret' = NilErr /\ token' = "Comment"
                /\ text' = SubSeq(input, p, CommentEnd(input, p))
          /\ CutOffComment => ret' = EOFErr]_vars

C19_Witness ==
    /\ Returned(EOFErr) /\ toks # <<>>
    /\ LET t == toks[Len(toks)] IN
       /\ t[1] = "Comment" /\ t[2][Len(t[2])] \notin CommentEnders
       /\ \E i \in 1 .. Len(t[2]) : t[2][i] = CR

(* C20: in an ascii85 string the first '~' after "<~" must have '>' right  *)
(* after it, and then the token is an A85String; with another byte or the  *)
(* end of the input after it Next returns a syntax error; and a byte       *)
(* before that '~' that is neither in '!'..'u' nor white space makes Next  *)
(* return a syntax error.                                                  *)
A85Digits == Bang .. LowU
(* The first index from i on of a byte that is not a digit of ascii85 nor  *)
(* white space (a '~' is such a byte), one past the end if there is none.  *)
RECURSIVE A85BodyEnd(_, _)
A85BodyEnd(in, i) ==
    IF i <= Len(in) /\ in[i] \in A85Digits \cup WhiteSpaceBytes THEN A85BodyEnd(in, i + 1) ELSE i

C20_A85Closing ==
    (op = "Next" /\ At(input, pos + 1) = LAngle /\ At(input, pos + 2) = Tilde) =>
        LET k == A85BodyEnd(input, pos + 3) IN
        /\ (At(input, k) = Tilde /\ At(input, k + 1) = RAngle) =>
              (ret = NilErr /\ token = "A85String" /\ text = SubSeq(input, pos + 1, k + 1))
        /\ (At(input, k) = Tilde /\ At(input, k + 1) # RAngle) =>
              (IsSyntaxErr(ret) /\ err = ret)
        /\ (k <= Len(input) /\ At(input, k) # Tilde) => (IsSyntaxErr(ret) /\ err = ret)

C20_Witness ==
    /\ Returned(MkErr("invalid closing ascii85 quote", 0))
    /\ At(input, pos + 1) = LAngle /\ At(input, pos + 2) = Tilde
    /\ A85BodyEnd(input, pos + 3) = Len(input) /\ Len(input) > pos + 3
    /\ input[Len(input)] = Tilde

(* C21: after every call of Next Pos() <= End(); the Pos() of a call is at *)
(* least the End() of the call before it, and End() is never less than it  *)
(* was after the call before.                                              *)
C21_OffsetsMonotone ==
    [][op' = "Next" => /\ pos' <= end'
                       /\ pos' >= end
                       /\ end' >= end]_vars
(* A second token, found after skipped white space and ended by a          *)
(* delimiter that was pushed back.                                         *)
C21_Witness ==
    /\ Succeeded /\ Len(toks) >= 2
    /\ pos > Len(toks[1][2]) /\ pos < end
    /\ token \in NamelikeTypes /\ end < Len(input)

(* C22: End() is the number of bytes read from the stream less the bytes   *)
(* un-read, so it is never more than the length of the input.              *)
C22_EndCountsBytesRead == end = rd /\ end <= Len(input)

(* C23: Type() is Invalid before the first call of Next and after every    *)
(* call of Next that returned an error (io.EOF, a syntax error or a read   *)
(* failure); after every call that returned nil it is one of the twelve    *)
(* other types.                                                            *)
TokenTypes == Types \ {"Invalid"}
C23_InvalidIffNoToken ==
    /\ op = "New" => token = "Invalid"
    /\ op = "Next" /\ ret # NilErr => token = "Invalid"
    /\ Succeeded => token \in TokenTypes /\ Cardinality(TokenTypes) = 12
(* A call that fails on a read of the stream after a call that gave a      *)
(* token.                                                                  *)
C23_Witness ==
    /\ Returned(IOErr) /\ Len(toks) >= 1 /\ token = "Invalid"

(* C24: after every call of Next Err() is what the call returned: nil      *)
(* after a success, whatever an earlier call returned, and the error       *)
(* returned, io.EOF included, after a failure.                             *)
C24_ErrIsLastResult == op = "Next" => err = ret
(* A success after a call that failed on a read of the stream. *)
C24_Witness == Succeeded /\ failed /\ err = NilErr

(* C25: on a stream that raises no read failure, every call of Next that   *)
(* does not return io.EOF, a success or a syntax error, leaves at least    *)
(* one byte more of the input read, net of the byte pushed back; so at     *)
(* most len(input) calls return something else than io.EOF, and a caller   *)
(* that keeps calling has io.EOF from call len(input)+1 at the latest.     *)
C25_Progress ==
    [][op' = "Next" =>
          /\ ret' # EOFErr => rd' > rd
          /\ rd' <= Len(input)
          /\ calls' <= Len(input)]_vars
(* io.EOF after a success and a syntax error, each of which read bytes. *)
C25_Witness ==
    /\ Returned(EOFErr) /\ Len(toks) >= 1 /\ calls > Len(toks)
    /\ rd = Len(input)

(* C26: once a call of Next has returned io.EOF, the next call returns     *)
(* io.EOF too, and so every later one; after each of them Type() is        *)
(* Invalid, Text() is empty, and Pos() and End() are equal to each other   *)
(* and the same as after the call before.                                  *)
AtEOF(s) == s.token = "Invalid" /\ s.text = <<>> /\ s.pos = s.end
EOFAgain(r) ==
    /\ r.ret = EOFErr /\ r.s.err = EOFErr /\ AtEOF(r.s)
    /\ r.s.pos = pos /\ r.s.end = end /\ r.s.rd = rd
C26_EOFAbsorbing ==
    Returned(EOFErr) => AtEOF(Scanner) /\ EOFAgain(ScannerNext(Scanner))
(* io.EOF after a comment and the white space behind it. *)
C26_Witness ==
    /\ Returned(EOFErr) /\ Len(toks) >= 1 /\ pos = end
    /\ pos > Len(toks[1][2]) + 1

(* C27: the text of a string token has the delimiters String() strips.  A  *)
(* LitString starts with '(' and ends with ')'; a HexString starts with    *)
(* '<', ends with '>' and has only hex digits and white space between; an  *)
(* A85String starts with "<~", ends with "~>" and has only the bytes '!'   *)
(* to 'u' and white space between.  So the slices String() takes, [1:n-1]  *)
(* and [2:n-2] of a text of n bytes, are within the text.                  *)
OnlyBytes(t, from, to, S) == \A i \in from .. to : t[i] \in S
SliceInRange(n, k) == k <= n - k
C27_StringDelimiters ==
    LET n == Len(text) IN
    /\ token = "LitString" =>
          /\ n >= 2 /\ text[1] = LParen /\ text[n] = RParen
          /\ SliceInRange(n, 1)
    /\ token = "HexString" =>
          /\ n >= 2 /\ text[1] = LAngle /\ text[n] = RAngle
          /\ OnlyBytes(text, 2, n - 1, HexDigits \cup WhiteSpaceBytes)
          /\ SliceInRange(n, 1)
    /\ token = "A85String" =>
          /\ n >= 4 /\ text[1] = LAngle /\ text[2] = Tilde
          /\ text[n - 1] = Tilde /\ text[n] = RAngle
          /\ OnlyBytes(text, 3, n - 2, A85Digits \cup WhiteSpaceBytes)
          /\ SliceInRange(n, 2)
(* A hex string with a digit and white space between its delimiters. *)
C27_Witness ==
    /\ Succeeded /\ token = "HexString" /\ Len(text) >= 4
    /\ \E i \in 2 .. Len(text) - 1 : text[i] \in WhiteSpaceBytes
    /\ \E i \in 2 .. Len(text) - 1 : text[i] \in HexDigits

(* C28: Type, Text, Pos, End, Err, Int64, Float64 and String leave the     *)
(* scanner as it is: a call of any of them changes neither the text, the   *)
(* type, the offsets and the error of the current token nor the position   *)
(* in the input, so the call of Next that follows gives what it would      *)
(* have given without them.                                                *)
Queries == {"Type", "Text", "Pos", "End", "Err", "Int64", "Float64", "String"}
C28_QueriesLeaveScanner ==
    [][op' \in Queries => /\ Scanner' = Scanner
                          /\ ScannerNext(Scanner') = ScannerNext(Scanner)]_vars
(* A second token, given by the call of Next that followed String and     *)
(* Int64 or Float64 on the token before it.                                *)
C28_Witness ==
    /\ Succeeded /\ Len(toks) >= 2 /\ str # <<>> /\ val.err # NoCall
    /\ str # ScannerString(Scanner)

(* C29: the spacing table of psmin agrees with the scanner's: for every    *)
(* pair of token types, from Invalid to Right, needsSpace(prev, cur) of    *)
(* psmin is NeedSpaceBetween(prev, cur) of the scanner; the types of the   *)
(* tokens psmin has scanned are among them.                                *)
ScannedTypes == {toks[i][1] : i \in 1 .. Len(toks)}
C29_TablesAgree ==
    \A p \in Types \cup ScannedTypes, c \in Types \cup ScannedTypes :
        needsSpace(p, c) = NeedSpaceBetween(p, c)
(* psmin has written a quoted name, a space and a name. *)
C29_Witness ==
    /\ op = "psmin" /\ Len(toks) >= 2
    /\ toks[1][1] = "QuotedName" /\ toks[2][1] = "Name"
    /\ out = toks[1][2] \o <<SP>> \o toks[2][2] \o <<LF>>

(* C30: given a name that cannot be opened, psmin stops with the fatal     *)
(* message "Input: <open error>" and does not call scan; scan is called    *)
(* only on stdin or on a file that was opened.                             *)
ScanCalled == op = "psmin"
C30_OpenFailureIsFatal ==
    /\ (name = Missing /\ op # "New") =>
           fatal = [msg |-> "Input", err |-> OpenErr] /\ ~ScanCalled
    /\ ScanCalled => name \in {Stdin, File}

===========================================================================
